---- MODULE Spec2Model ----
(***************************************************************************)
(* Model of the two scripts of the repository:                             *)
(*   chat.py              retrieval QA over a text knowledge base          *)
(*   notes_summarizer.py  video -> audio -> transcript -> summary -> notes *)
(*                                                                         *)
(* A character is its code point, ord(c).  Strings are sequences of         *)
(* characters (chat.py) or, where the code only looks at whitespace and    *)
(* lengths (notes_summarizer.py), run-length strings: sequences of runs    *)
(* [ch |-> c, n |-> k] standing for the character c repeated k times.      *)
(***************************************************************************)
EXTENDS Integers, Sequences, FiniteSets, TLC

VARIABLES
    pc,          \* position of the running script / pipeline
    text,        \* chat.py: the text read from the TXT file
    sentences,   \* chat.py: units of the knowledge base
    vectorizer,  \* chat.py: fitted TfidfVectorizer (vocabulary, document frequencies)
    question,    \* chat.py: the question asked
    answer,      \* chat.py: the unit answer_question selected
    transcript,  \* summarize: the text to summarize
    engine,      \* the summary text the summarization model produces
    chunks,      \* summarize: the list chunks
    summaries,   \* summarize: the list summaries, with the chunk each came from
    summary,     \* summarize: the formatted bullet points returned
    timestamps,  \* the transcript segments
    outfile,     \* the output file written by save_notes
    tempAudio,   \* whether temp_audio.mp3 exists on disk
    audio_path,  \* process_video: the local audio_path
    calls,       \* process_video: the stages entered, in order
    result       \* process_video: the returned value

vars == <<pc, text, sentences, vectorizer, question, answer, transcript, engine,
          chunks, summaries, summary, timestamps, outfile, tempAudio,
          audio_path, calls, result>>

chatVars == <<text, sentences, vectorizer, question, answer>>
sumVars == <<transcript, engine, chunks, summaries, summary>>
noteVars == <<timestamps, outfile>>
pipeVars == <<tempAudio, audio_path, calls, result>>

None == "None"
Unset == "unset"

(***************************************************************************)
(* Bounds of the explored inputs.                                          *)
(***************************************************************************)
MaxTextLen == 4
MaxUnits == 3
MaxBlocks == 2
MaxSegments == 46

(***************************************************************************)
(* Generic helpers.                                                        *)
(***************************************************************************)
SeqsUpTo(S, n) == UNION {[1..k -> S] : k \in 0..n}

Last(s) == s[Len(s)]

Reverse(s) == [i \in 1..Len(s) |-> s[Len(s) + 1 - i]]

\* a loop over s[lo..hi] that starts in state st and runs the body Op on
\* each element in turn: the state after s[lo..mid] is the state the loop
\* over s[mid+1..hi] starts in (halving the range and binding the middle
\* state as a value only bound the nesting depth of the evaluation, the
\* elements are visited in order)
RECURSIVE ForEach(_, _, _, _, _)
ForEach(Op(_, _), st, s, lo, hi) ==
    IF lo > hi THEN st
    ELSE IF lo = hi THEN Op(st, s[lo])
    ELSE CHOOSE final \in
             { ForEach(Op, middle, s, ((lo + hi) \div 2) + 1, hi) :
                 middle \in {ForEach(Op, st, s, lo, (lo + hi) \div 2)} } : TRUE

Concat(a, b) == a \o b

Flatten(ss) == ForEach(Concat, <<>>, ss, 1, Len(ss))

(***************************************************************************)
(* chat.py : split_into_sentences                                          *)
(***************************************************************************)
\* the printable characters of ASCII in code point order, from the space
\* on; the double quote, the backslash and the backtick are written by
\* their names
Printable ==
    <<
       " ", "!", "(quote)", "#", "$", "%", "&", "'", "(", ")", "*", "+",
       ",", "-", ".", "/", "0", "1", "2", "3", "4", "5", "6", "7",
       "8", "9", ":", ";", "<", "=", ">", "?", "@", "A", "B", "C",
       "D", "E", "F", "G", "H", "I", "J", "K", "L", "M", "N", "O",
       "P", "Q", "R", "S", "T", "U", "V", "W", "X", "Y", "Z", "[",
       "(backslash)", "]", "^", "_", "(backtick)", "a", "b", "c", "d", "e", "f", "g",
       "h", "i", "j", "k", "l", "m", "n", "o", "p", "q", "r", "s",
       "t", "u", "v", "w", "x", "y", "z", "{", "|", "}", "~" >>

\* ord(c) of a character of ASCII written as a string
Ord(c) ==
    CASE c = "\t" -> 9 [] c = "\n" -> 10 [] c = "\f" -> 12 [] c = "\r" -> 13
      [] OTHER -> 31 + (CHOOSE i \in 1..Len(Printable) : Printable[i] = c)

\* a str literal of ASCII characters
Str(cs) == [i \in 1..Len(cs) |-> Ord(cs[i])]

NEWLINE == Ord("\n")
SPACE == Ord(" ")
ASTERISK == Ord("*")
HYPHEN == Ord("-")
RPAREN == Ord(")")
DOT == Ord(".")
BAR == Ord("|")
ZERO == Ord("0")
\* U+2022
BULLET == 8226

\* the characters of the ranges <<lo, hi>> of a table
Chars(R) == UNION {R[i][1]..R[i][2] : i \in 1..Len(R)}

\* the ranges of the decimal digits (category Nd) of every script
DigitRanges ==
    <<
       <<48, 57>>, <<1632, 1641>>, <<1776, 1785>>, <<1984, 1993>>, <<2406, 2415>>,
       <<2534, 2543>>, <<2662, 2671>>, <<2790, 2799>>, <<2918, 2927>>, <<3046, 3055>>,
       <<3174, 3183>>, <<3302, 3311>>, <<3430, 3439>>, <<3558, 3567>>, <<3664, 3673>>,
       <<3792, 3801>>, <<3872, 3881>>, <<4160, 4169>>, <<4240, 4249>>, <<6112, 6121>>,
       <<6160, 6169>>, <<6470, 6479>>, <<6608, 6617>>, <<6784, 6793>>, <<6800, 6809>>,
       <<6992, 7001>>, <<7088, 7097>>, <<7232, 7241>>, <<7248, 7257>>, <<42528, 42537>>,
       <<43216, 43225>>, <<43264, 43273>>, <<43472, 43481>>, <<43504, 43513>>, <<43600, 43609>>,
       <<44016, 44025>>, <<65296, 65305>>, <<66720, 66729>>, <<68912, 68921>>, <<69734, 69743>>,
       <<69872, 69881>>, <<69942, 69951>>, <<70096, 70105>>, <<70384, 70393>>, <<70736, 70745>>,
       <<70864, 70873>>, <<71248, 71257>>, <<71360, 71369>>, <<71472, 71481>>, <<71904, 71913>>,
       <<72016, 72025>>, <<72784, 72793>>, <<73040, 73049>>, <<73120, 73129>>, <<92768, 92777>>,
       <<92864, 92873>>, <<93008, 93017>>, <<120782, 120831>>, <<123200, 123209>>, <<123632, 123641>>,
       <<125264, 125273>>, <<130032, 130041>> >>

\* the characters \d of a str pattern matches
Digits == Chars(DigitRanges)

\* the characters str.strip() and str.split() take for whitespace
Whitespace ==
    { 9, 10, 11, 12, 13, 28, 29, 30, 31, 32,
      133, 160, 5760, 8192, 8193, 8194, 8195, 8196, 8197, 8198,
      8199, 8200, 8201, 8202, 8232, 8233, 8239, 8287, 12288 }

\* index just past the run of digits that starts at i
RECURSIVE DigitRunEnd(_, _)
DigitRunEnd(s, i) ==
    IF i <= Len(s) /\ s[i] \in Digits THEN DigitRunEnd(s, i + 1) ELSE i

\* length of the match of  \n|BULLET|- |\*|\d+\)  at position i, 0 when none
DelimiterAt(s, i) ==
    IF s[i] \in {NEWLINE, BULLET, ASTERISK} THEN 1
    ELSE IF s[i] = HYPHEN /\ i < Len(s) /\ s[i + 1] = SPACE THEN 2
    ELSE IF s[i] \in Digits /\ DigitRunEnd(s, i) <= Len(s)
                            /\ s[DigitRunEnd(s, i)] = RPAREN
         THEN DigitRunEnd(s, i) + 1 - i
    ELSE 0

\* re.split: the fragments between the matches, empty ones included
RECURSIVE ReSplit(_, _, _)
ReSplit(s, i, cur) ==
    IF i > Len(s) THEN <<cur>>
    ELSE IF DelimiterAt(s, i) > 0
         THEN <<cur>> \o ReSplit(s, i + DelimiterAt(s, i), <<>>)
    ELSE ReSplit(s, i + 1, Append(cur, s[i]))

RECURSIVE LStrip(_)
LStrip(s) == IF s # <<>> /\ Head(s) \in Whitespace THEN LStrip(Tail(s)) ELSE s

RECURSIVE RStrip(_)
RStrip(s) ==
    IF s # <<>> /\ Last(s) \in Whitespace
    THEN RStrip(SubSeq(s, 1, Len(s) - 1)) ELSE s

\* variant: only the leading whitespace is removed
StripLeadingOnly(s) == LStrip(s)

Strip(s) == RStrip(LStrip(s))

\* variant: the filter tests the fragment, not the stripped fragment
KeepNonEmpty(l) == l # <<>>

KeepFragment(l) == Strip(l) # <<>>

RECURSIVE StripAll(_)
StripAll(lines) ==
    IF lines = <<>> THEN <<>>
    ELSE (IF KeepFragment(Head(lines)) THEN <<Strip(Head(lines))>> ELSE <<>>)
         \o StripAll(Tail(lines))

split_into_sentences(s) == StripAll(ReSplit(s, 1, <<>>))

(***************************************************************************)
(* chat.py : build_knowledge_base (TfidfVectorizer with its defaults:      *)
(* lowercase, token_pattern \b\w\w+\b, smooth idf, l2 norm)                *)
(***************************************************************************)
\* the characters str.lower() maps to one other character, as runs
\* <<lo, hi, step, delta>>: lo, lo + step, ... hi map to themselves + delta
LowerRuns ==
    <<
       <<65, 90, 1, 32>>, <<192, 214, 1, 32>>, <<216, 222, 1, 32>>,
       <<256, 302, 2, 1>>, <<306, 310, 2, 1>>, <<313, 327, 2, 1>>,
       <<330, 374, 2, 1>>, <<376, 376, 1, -121>>, <<377, 381, 2, 1>>,
       <<385, 385, 1, 210>>, <<386, 388, 2, 1>>, <<390, 390, 1, 206>>,
       <<391, 391, 1, 1>>, <<393, 394, 1, 205>>, <<395, 395, 1, 1>>,
       <<398, 398, 1, 79>>, <<399, 399, 1, 202>>, <<400, 400, 1, 203>>,
       <<401, 401, 1, 1>>, <<403, 403, 1, 205>>, <<404, 404, 1, 207>>,
       <<406, 406, 1, 211>>, <<407, 407, 1, 209>>, <<408, 408, 1, 1>>,
       <<412, 412, 1, 211>>, <<413, 413, 1, 213>>, <<415, 415, 1, 214>>,
       <<416, 420, 2, 1>>, <<422, 422, 1, 218>>, <<423, 423, 1, 1>>,
       <<425, 425, 1, 218>>, <<428, 428, 1, 1>>, <<430, 430, 1, 218>>,
       <<431, 431, 1, 1>>, <<433, 434, 1, 217>>, <<435, 437, 2, 1>>,
       <<439, 439, 1, 219>>, <<440, 440, 1, 1>>, <<444, 444, 1, 1>>,
       <<452, 452, 1, 2>>, <<453, 453, 1, 1>>, <<455, 455, 1, 2>>,
       <<456, 456, 1, 1>>, <<458, 458, 1, 2>>, <<459, 475, 2, 1>>,
       <<478, 494, 2, 1>>, <<497, 497, 1, 2>>, <<498, 500, 2, 1>>,
       <<502, 502, 1, -97>>, <<503, 503, 1, -56>>, <<504, 542, 2, 1>>,
       <<544, 544, 1, -130>>, <<546, 562, 2, 1>>, <<570, 570, 1, 10795>>,
       <<571, 571, 1, 1>>, <<573, 573, 1, -163>>, <<574, 574, 1, 10792>>,
       <<577, 577, 1, 1>>, <<579, 579, 1, -195>>, <<580, 580, 1, 69>>,
       <<581, 581, 1, 71>>, <<582, 590, 2, 1>>, <<880, 882, 2, 1>>,
       <<886, 886, 1, 1>>, <<895, 895, 1, 116>>, <<902, 902, 1, 38>>,
       <<904, 906, 1, 37>>, <<908, 908, 1, 64>>, <<910, 911, 1, 63>>,
       <<913, 929, 1, 32>>, <<931, 939, 1, 32>>, <<975, 975, 1, 8>>,
       <<984, 1006, 2, 1>>, <<1012, 1012, 1, -60>>, <<1015, 1015, 1, 1>>,
       <<1017, 1017, 1, -7>>, <<1018, 1018, 1, 1>>, <<1021, 1023, 1, -130>>,
       <<1024, 1039, 1, 80>>, <<1040, 1071, 1, 32>>, <<1120, 1152, 2, 1>>,
       <<1162, 1214, 2, 1>>, <<1216, 1216, 1, 15>>, <<1217, 1229, 2, 1>>,
       <<1232, 1326, 2, 1>>, <<1329, 1366, 1, 48>>, <<4256, 4293, 1, 7264>>,
       <<4295, 4295, 1, 7264>>, <<4301, 4301, 1, 7264>>, <<5024, 5103, 1, 38864>>,
       <<5104, 5109, 1, 8>>, <<7312, 7354, 1, -3008>>, <<7357, 7359, 1, -3008>>,
       <<7680, 7828, 2, 1>>, <<7838, 7838, 1, -7615>>, <<7840, 7934, 2, 1>>,
       <<7944, 7951, 1, -8>>, <<7960, 7965, 1, -8>>, <<7976, 7983, 1, -8>>,
       <<7992, 7999, 1, -8>>, <<8008, 8013, 1, -8>>, <<8025, 8031, 2, -8>>,
       <<8040, 8047, 1, -8>>, <<8072, 8079, 1, -8>>, <<8088, 8095, 1, -8>>,
       <<8104, 8111, 1, -8>>, <<8120, 8121, 1, -8>>, <<8122, 8123, 1, -74>>,
       <<8124, 8124, 1, -9>>, <<8136, 8139, 1, -86>>, <<8140, 8140, 1, -9>>,
       <<8152, 8153, 1, -8>>, <<8154, 8155, 1, -100>>, <<8168, 8169, 1, -8>>,
       <<8170, 8171, 1, -112>>, <<8172, 8172, 1, -7>>, <<8184, 8185, 1, -128>>,
       <<8186, 8187, 1, -126>>, <<8188, 8188, 1, -9>>, <<8486, 8486, 1, -7517>>,
       <<8490, 8490, 1, -8383>>, <<8491, 8491, 1, -8262>>, <<8498, 8498, 1, 28>>,
       <<8544, 8559, 1, 16>>, <<8579, 8579, 1, 1>>, <<9398, 9423, 1, 26>>,
       <<11264, 11311, 1, 48>>, <<11360, 11360, 1, 1>>, <<11362, 11362, 1, -10743>>,
       <<11363, 11363, 1, -3814>>, <<11364, 11364, 1, -10727>>, <<11367, 11371, 2, 1>>,
       <<11373, 11373, 1, -10780>>, <<11374, 11374, 1, -10749>>, <<11375, 11375, 1, -10783>>,
       <<11376, 11376, 1, -10782>>, <<11378, 11378, 1, 1>>, <<11381, 11381, 1, 1>>,
       <<11390, 11391, 1, -10815>>, <<11392, 11490, 2, 1>>, <<11499, 11501, 2, 1>>,
       <<11506, 11506, 1, 1>>, <<42560, 42604, 2, 1>>, <<42624, 42650, 2, 1>>,
       <<42786, 42798, 2, 1>>, <<42802, 42862, 2, 1>>, <<42873, 42875, 2, 1>>,
       <<42877, 42877, 1, -35332>>, <<42878, 42886, 2, 1>>, <<42891, 42891, 1, 1>>,
       <<42893, 42893, 1, -42280>>, <<42896, 42898, 2, 1>>, <<42902, 42920, 2, 1>>,
       <<42922, 42922, 1, -42308>>, <<42923, 42923, 1, -42319>>, <<42924, 42924, 1, -42315>>,
       <<42925, 42925, 1, -42305>>, <<42926, 42926, 1, -42308>>, <<42928, 42928, 1, -42258>>,
       <<42929, 42929, 1, -42282>>, <<42930, 42930, 1, -42261>>, <<42931, 42931, 1, 928>>,
       <<42932, 42946, 2, 1>>, <<42948, 42948, 1, -48>>, <<42949, 42949, 1, -42307>>,
       <<42950, 42950, 1, -35384>>, <<42951, 42953, 2, 1>>, <<42960, 42960, 1, 1>>,
       <<42966, 42968, 2, 1>>, <<42997, 42997, 1, 1>>, <<65313, 65338, 1, 32>>,
       <<66560, 66599, 1, 40>>, <<66736, 66771, 1, 40>>, <<66928, 66938, 1, 39>>,
       <<66940, 66954, 1, 39>>, <<66956, 66962, 1, 39>>, <<66964, 66965, 1, 39>>,
       <<68736, 68786, 1, 64>>, <<71840, 71871, 1, 32>>, <<93760, 93791, 1, 32>>,
       <<125184, 125217, 1, 34>> >>

Uppers ==
    UNION { {LowerRuns[i][1] + LowerRuns[i][3] * k :
                k \in 0..((LowerRuns[i][2] - LowerRuns[i][1]) \div LowerRuns[i][3])} :
            i \in 1..Len(LowerRuns) }

LowerDelta(c) ==
    LowerRuns[CHOOSE i \in 1..Len(LowerRuns) :
                 /\ LowerRuns[i][1] <= c /\ c <= LowerRuns[i][2]
                 /\ (c - LowerRuns[i][1]) % LowerRuns[i][3] = 0][4]

\* str.lower() of one character outside any context: U+0130 becomes two
\* characters
Lower(c) ==
    IF c = 304 THEN <<105, 775>>
    ELSE IF c \in Uppers THEN <<c + LowerDelta(c)>>
    ELSE <<c>>

\* the ranges of the cased characters that are not case-ignorable
CasedRanges ==
    <<
       <<65, 90>>, <<97, 122>>, <<170, 170>>, <<181, 181>>, <<186, 186>>,
       <<192, 214>>, <<216, 246>>, <<248, 442>>, <<444, 447>>, <<452, 659>>,
       <<661, 687>>, <<880, 883>>, <<886, 887>>, <<891, 893>>, <<895, 895>>,
       <<902, 902>>, <<904, 906>>, <<908, 908>>, <<910, 929>>, <<931, 1013>>,
       <<1015, 1153>>, <<1162, 1327>>, <<1329, 1366>>, <<1376, 1416>>, <<4256, 4293>>,
       <<4295, 4295>>, <<4301, 4301>>, <<4304, 4346>>, <<4349, 4351>>, <<5024, 5109>>,
       <<5112, 5117>>, <<7296, 7304>>, <<7312, 7354>>, <<7357, 7359>>, <<7424, 7467>>,
       <<7531, 7543>>, <<7545, 7578>>, <<7680, 7957>>, <<7960, 7965>>, <<7968, 8005>>,
       <<8008, 8013>>, <<8016, 8023>>, <<8025, 8025>>, <<8027, 8027>>, <<8029, 8029>>,
       <<8031, 8061>>, <<8064, 8116>>, <<8118, 8124>>, <<8126, 8126>>, <<8130, 8132>>,
       <<8134, 8140>>, <<8144, 8147>>, <<8150, 8155>>, <<8160, 8172>>, <<8178, 8180>>,
       <<8182, 8188>>, <<8450, 8450>>, <<8455, 8455>>, <<8458, 8467>>, <<8469, 8469>>,
       <<8473, 8477>>, <<8484, 8484>>, <<8486, 8486>>, <<8488, 8488>>, <<8490, 8493>>,
       <<8495, 8500>>, <<8505, 8505>>, <<8508, 8511>>, <<8517, 8521>>, <<8526, 8526>>,
       <<8544, 8575>>, <<8579, 8580>>, <<9398, 9449>>, <<11264, 11387>>, <<11390, 11492>>,
       <<11499, 11502>>, <<11506, 11507>>, <<11520, 11557>>, <<11559, 11559>>, <<11565, 11565>>,
       <<42560, 42605>>, <<42624, 42651>>, <<42786, 42863>>, <<42865, 42887>>, <<42891, 42894>>,
       <<42896, 42954>>, <<42960, 42961>>, <<42963, 42963>>, <<42965, 42969>>, <<42997, 42998>>,
       <<43002, 43002>>, <<43824, 43866>>, <<43872, 43880>>, <<43888, 43967>>, <<64256, 64262>>,
       <<64275, 64279>>, <<65313, 65338>>, <<65345, 65370>>, <<66560, 66639>>, <<66736, 66771>>,
       <<66776, 66811>>, <<66928, 66938>>, <<66940, 66954>>, <<66956, 66962>>, <<66964, 66965>>,
       <<66967, 66977>>, <<66979, 66993>>, <<66995, 67001>>, <<67003, 67004>>, <<68736, 68786>>,
       <<68800, 68850>>, <<71840, 71903>>, <<93760, 93823>>, <<119808, 119892>>, <<119894, 119964>>,
       <<119966, 119967>>, <<119970, 119970>>, <<119973, 119974>>, <<119977, 119980>>, <<119982, 119993>>,
       <<119995, 119995>>, <<119997, 120003>>, <<120005, 120069>>, <<120071, 120074>>, <<120077, 120084>>,
       <<120086, 120092>>, <<120094, 120121>>, <<120123, 120126>>, <<120128, 120132>>, <<120134, 120134>>,
       <<120138, 120144>>, <<120146, 120485>>, <<120488, 120512>>, <<120514, 120538>>, <<120540, 120570>>,
       <<120572, 120596>>, <<120598, 120628>>, <<120630, 120654>>, <<120656, 120686>>, <<120688, 120712>>,
       <<120714, 120744>>, <<120746, 120770>>, <<120772, 120779>>, <<122624, 122633>>, <<122635, 122654>>,
       <<125184, 125251>>, <<127280, 127305>>, <<127312, 127337>>, <<127344, 127369>> >>

Cased == Chars(CasedRanges)

\* the ranges of the case-ignorable characters
CaseIgnorableRanges ==
    <<
       <<39, 39>>, <<46, 46>>, <<58, 58>>, <<94, 94>>, <<96, 96>>,
       <<168, 168>>, <<173, 173>>, <<175, 175>>, <<180, 180>>, <<183, 184>>,
       <<688, 879>>, <<884, 885>>, <<890, 890>>, <<900, 901>>, <<903, 903>>,
       <<1155, 1161>>, <<1369, 1369>>, <<1375, 1375>>, <<1425, 1469>>, <<1471, 1471>>,
       <<1473, 1474>>, <<1476, 1477>>, <<1479, 1479>>, <<1524, 1524>>, <<1536, 1541>>,
       <<1552, 1562>>, <<1564, 1564>>, <<1600, 1600>>, <<1611, 1631>>, <<1648, 1648>>,
       <<1750, 1757>>, <<1759, 1768>>, <<1770, 1773>>, <<1807, 1807>>, <<1809, 1809>>,
       <<1840, 1866>>, <<1958, 1968>>, <<2027, 2037>>, <<2042, 2042>>, <<2045, 2045>>,
       <<2070, 2093>>, <<2137, 2139>>, <<2184, 2184>>, <<2192, 2193>>, <<2200, 2207>>,
       <<2249, 2306>>, <<2362, 2362>>, <<2364, 2364>>, <<2369, 2376>>, <<2381, 2381>>,
       <<2385, 2391>>, <<2402, 2403>>, <<2417, 2417>>, <<2433, 2433>>, <<2492, 2492>>,
       <<2497, 2500>>, <<2509, 2509>>, <<2530, 2531>>, <<2558, 2558>>, <<2561, 2562>>,
       <<2620, 2620>>, <<2625, 2626>>, <<2631, 2632>>, <<2635, 2637>>, <<2641, 2641>>,
       <<2672, 2673>>, <<2677, 2677>>, <<2689, 2690>>, <<2748, 2748>>, <<2753, 2757>>,
       <<2759, 2760>>, <<2765, 2765>>, <<2786, 2787>>, <<2810, 2815>>, <<2817, 2817>>,
       <<2876, 2876>>, <<2879, 2879>>, <<2881, 2884>>, <<2893, 2893>>, <<2901, 2902>>,
       <<2914, 2915>>, <<2946, 2946>>, <<3008, 3008>>, <<3021, 3021>>, <<3072, 3072>>,
       <<3076, 3076>>, <<3132, 3132>>, <<3134, 3136>>, <<3142, 3144>>, <<3146, 3149>>,
       <<3157, 3158>>, <<3170, 3171>>, <<3201, 3201>>, <<3260, 3260>>, <<3263, 3263>>,
       <<3270, 3270>>, <<3276, 3277>>, <<3298, 3299>>, <<3328, 3329>>, <<3387, 3388>>,
       <<3393, 3396>>, <<3405, 3405>>, <<3426, 3427>>, <<3457, 3457>>, <<3530, 3530>>,
       <<3538, 3540>>, <<3542, 3542>>, <<3633, 3633>>, <<3636, 3642>>, <<3654, 3662>>,
       <<3761, 3761>>, <<3764, 3772>>, <<3782, 3782>>, <<3784, 3789>>, <<3864, 3865>>,
       <<3893, 3893>>, <<3895, 3895>>, <<3897, 3897>>, <<3953, 3966>>, <<3968, 3972>>,
       <<3974, 3975>>, <<3981, 3991>>, <<3993, 4028>>, <<4038, 4038>>, <<4141, 4144>>,
       <<4146, 4151>>, <<4153, 4154>>, <<4157, 4158>>, <<4184, 4185>>, <<4190, 4192>>,
       <<4209, 4212>>, <<4226, 4226>>, <<4229, 4230>>, <<4237, 4237>>, <<4253, 4253>>,
       <<4348, 4348>>, <<4957, 4959>>, <<5906, 5908>>, <<5938, 5939>>, <<5970, 5971>>,
       <<6002, 6003>>, <<6068, 6069>>, <<6071, 6077>>, <<6086, 6086>>, <<6089, 6099>>,
       <<6103, 6103>>, <<6109, 6109>>, <<6155, 6159>>, <<6211, 6211>>, <<6277, 6278>>,
       <<6313, 6313>>, <<6432, 6434>>, <<6439, 6440>>, <<6450, 6450>>, <<6457, 6459>>,
       <<6679, 6680>>, <<6683, 6683>>, <<6742, 6742>>, <<6744, 6750>>, <<6752, 6752>>,
       <<6754, 6754>>, <<6757, 6764>>, <<6771, 6780>>, <<6783, 6783>>, <<6823, 6823>>,
       <<6832, 6862>>, <<6912, 6915>>, <<6964, 6964>>, <<6966, 6970>>, <<6972, 6972>>,
       <<6978, 6978>>, <<7019, 7027>>, <<7040, 7041>>, <<7074, 7077>>, <<7080, 7081>>,
       <<7083, 7085>>, <<7142, 7142>>, <<7144, 7145>>, <<7149, 7149>>, <<7151, 7153>>,
       <<7212, 7219>>, <<7222, 7223>>, <<7288, 7293>>, <<7376, 7378>>, <<7380, 7392>>,
       <<7394, 7400>>, <<7405, 7405>>, <<7412, 7412>>, <<7416, 7417>>, <<7468, 7530>>,
       <<7544, 7544>>, <<7579, 7679>>, <<8125, 8125>>, <<8127, 8129>>, <<8141, 8143>>,
       <<8157, 8159>>, <<8173, 8175>>, <<8189, 8190>>, <<8203, 8207>>, <<8216, 8217>>,
       <<8228, 8228>>, <<8231, 8231>>, <<8234, 8238>>, <<8288, 8292>>, <<8294, 8303>>,
       <<8305, 8305>>, <<8319, 8319>>, <<8336, 8348>>, <<8400, 8432>>, <<11388, 11389>>,
       <<11503, 11505>>, <<11631, 11631>>, <<11647, 11647>>, <<11744, 11775>>, <<11823, 11823>>,
       <<12293, 12293>>, <<12330, 12333>>, <<12337, 12341>>, <<12347, 12347>>, <<12441, 12446>>,
       <<12540, 12542>>, <<40981, 40981>>, <<42232, 42237>>, <<42508, 42508>>, <<42607, 42610>>,
       <<42612, 42621>>, <<42623, 42623>>, <<42652, 42655>>, <<42736, 42737>>, <<42752, 42785>>,
       <<42864, 42864>>, <<42888, 42890>>, <<42994, 42996>>, <<43000, 43001>>, <<43010, 43010>>,
       <<43014, 43014>>, <<43019, 43019>>, <<43045, 43046>>, <<43052, 43052>>, <<43204, 43205>>,
       <<43232, 43249>>, <<43263, 43263>>, <<43302, 43309>>, <<43335, 43345>>, <<43392, 43394>>,
       <<43443, 43443>>, <<43446, 43449>>, <<43452, 43453>>, <<43471, 43471>>, <<43493, 43494>>,
       <<43561, 43566>>, <<43569, 43570>>, <<43573, 43574>>, <<43587, 43587>>, <<43596, 43596>>,
       <<43632, 43632>>, <<43644, 43644>>, <<43696, 43696>>, <<43698, 43700>>, <<43703, 43704>>,
       <<43710, 43711>>, <<43713, 43713>>, <<43741, 43741>>, <<43756, 43757>>, <<43763, 43764>>,
       <<43766, 43766>>, <<43867, 43871>>, <<43881, 43883>>, <<44005, 44005>>, <<44008, 44008>>,
       <<44013, 44013>>, <<64286, 64286>>, <<64434, 64450>>, <<65024, 65039>>, <<65043, 65043>>,
       <<65056, 65071>>, <<65106, 65106>>, <<65109, 65109>>, <<65279, 65279>>, <<65287, 65287>>,
       <<65294, 65294>>, <<65306, 65306>>, <<65342, 65342>>, <<65344, 65344>>, <<65392, 65392>>,
       <<65438, 65439>>, <<65507, 65507>>, <<65529, 65531>>, <<66045, 66045>>, <<66272, 66272>>,
       <<66422, 66426>>, <<67456, 67461>>, <<67463, 67504>>, <<67506, 67514>>, <<68097, 68099>>,
       <<68101, 68102>>, <<68108, 68111>>, <<68152, 68154>>, <<68159, 68159>>, <<68325, 68326>>,
       <<68900, 68903>>, <<69291, 69292>>, <<69446, 69456>>, <<69506, 69509>>, <<69633, 69633>>,
       <<69688, 69702>>, <<69744, 69744>>, <<69747, 69748>>, <<69759, 69761>>, <<69811, 69814>>,
       <<69817, 69818>>, <<69821, 69821>>, <<69826, 69826>>, <<69837, 69837>>, <<69888, 69890>>,
       <<69927, 69931>>, <<69933, 69940>>, <<70003, 70003>>, <<70016, 70017>>, <<70070, 70078>>,
       <<70089, 70092>>, <<70095, 70095>>, <<70191, 70193>>, <<70196, 70196>>, <<70198, 70199>>,
       <<70206, 70206>>, <<70367, 70367>>, <<70371, 70378>>, <<70400, 70401>>, <<70459, 70460>>,
       <<70464, 70464>>, <<70502, 70508>>, <<70512, 70516>>, <<70712, 70719>>, <<70722, 70724>>,
       <<70726, 70726>>, <<70750, 70750>>, <<70835, 70840>>, <<70842, 70842>>, <<70847, 70848>>,
       <<70850, 70851>>, <<71090, 71093>>, <<71100, 71101>>, <<71103, 71104>>, <<71132, 71133>>,
       <<71219, 71226>>, <<71229, 71229>>, <<71231, 71232>>, <<71339, 71339>>, <<71341, 71341>>,
       <<71344, 71349>>, <<71351, 71351>>, <<71453, 71455>>, <<71458, 71461>>, <<71463, 71467>>,
       <<71727, 71735>>, <<71737, 71738>>, <<71995, 71996>>, <<71998, 71998>>, <<72003, 72003>>,
       <<72148, 72151>>, <<72154, 72155>>, <<72160, 72160>>, <<72193, 72202>>, <<72243, 72248>>,
       <<72251, 72254>>, <<72263, 72263>>, <<72273, 72278>>, <<72281, 72283>>, <<72330, 72342>>,
       <<72344, 72345>>, <<72752, 72758>>, <<72760, 72765>>, <<72767, 72767>>, <<72850, 72871>>,
       <<72874, 72880>>, <<72882, 72883>>, <<72885, 72886>>, <<73009, 73014>>, <<73018, 73018>>,
       <<73020, 73021>>, <<73023, 73029>>, <<73031, 73031>>, <<73104, 73105>>, <<73109, 73109>>,
       <<73111, 73111>>, <<73459, 73460>>, <<78896, 78904>>, <<92912, 92916>>, <<92976, 92982>>,
       <<92992, 92995>>, <<94031, 94031>>, <<94095, 94111>>, <<94176, 94177>>, <<94179, 94180>>,
       <<110576, 110579>>, <<110581, 110587>>, <<110589, 110590>>, <<113821, 113822>>, <<113824, 113827>>,
       <<118528, 118573>>, <<118576, 118598>>, <<119143, 119145>>, <<119155, 119170>>, <<119173, 119179>>,
       <<119210, 119213>>, <<119362, 119364>>, <<121344, 121398>>, <<121403, 121452>>, <<121461, 121461>>,
       <<121476, 121476>>, <<121499, 121503>>, <<121505, 121519>>, <<122880, 122886>>, <<122888, 122904>>,
       <<122907, 122913>>, <<122915, 122916>>, <<122918, 122922>>, <<123184, 123197>>, <<123566, 123566>>,
       <<123628, 123631>>, <<125136, 125142>>, <<125252, 125259>>, <<127995, 127999>>, <<917505, 917505>>,
       <<917536, 917631>>, <<917760, 917999>> >>

CaseIgnorable == Chars(CaseIgnorableRanges)

\* the capital sigma s[i] ends a word: a cased character comes before it
\* and none after it, case-ignorable characters skipped on both sides
FinalSigma(s, i) ==
    /\ \E j \in 1..(i - 1) :
          s[j] \in Cased /\ \A k \in (j + 1)..(i - 1) : s[k] \in CaseIgnorable
    /\ ~\E j \in (i + 1)..Len(s) :
          s[j] \in Cased /\ \A k \in (i + 1)..(j - 1) : s[k] \in CaseIgnorable

\* str.lower(): U+03A3 becomes U+03C2 at the end of a word and U+03C3
\* elsewhere
LowerStr(s) ==
    Flatten([i \in 1..Len(s) |->
                IF s[i] = 931
                THEN <<IF FinalSigma(s, i) THEN 962 ELSE 963>>
                ELSE Lower(s[i])])

\* the ranges of the characters \w of a str pattern matches: the letters
\* and the numeric characters of every script, and the underscore
WordRanges ==
    <<
       <<48, 57>>, <<65, 90>>, <<95, 95>>, <<97, 122>>, <<170, 170>>,
       <<178, 179>>, <<181, 181>>, <<185, 186>>, <<188, 190>>, <<192, 214>>,
       <<216, 246>>, <<248, 705>>, <<710, 721>>, <<736, 740>>, <<748, 748>>,
       <<750, 750>>, <<880, 884>>, <<886, 887>>, <<890, 893>>, <<895, 895>>,
       <<902, 902>>, <<904, 906>>, <<908, 908>>, <<910, 929>>, <<931, 1013>>,
       <<1015, 1153>>, <<1162, 1327>>, <<1329, 1366>>, <<1369, 1369>>, <<1376, 1416>>,
       <<1488, 1514>>, <<1519, 1522>>, <<1568, 1610>>, <<1632, 1641>>, <<1646, 1647>>,
       <<1649, 1747>>, <<1749, 1749>>, <<1765, 1766>>, <<1774, 1788>>, <<1791, 1791>>,
       <<1808, 1808>>, <<1810, 1839>>, <<1869, 1957>>, <<1969, 1969>>, <<1984, 2026>>,
       <<2036, 2037>>, <<2042, 2042>>, <<2048, 2069>>, <<2074, 2074>>, <<2084, 2084>>,
       <<2088, 2088>>, <<2112, 2136>>, <<2144, 2154>>, <<2160, 2183>>, <<2185, 2190>>,
       <<2208, 2249>>, <<2308, 2361>>, <<2365, 2365>>, <<2384, 2384>>, <<2392, 2401>>,
       <<2406, 2415>>, <<2417, 2432>>, <<2437, 2444>>, <<2447, 2448>>, <<2451, 2472>>,
       <<2474, 2480>>, <<2482, 2482>>, <<2486, 2489>>, <<2493, 2493>>, <<2510, 2510>>,
       <<2524, 2525>>, <<2527, 2529>>, <<2534, 2545>>, <<2548, 2553>>, <<2556, 2556>>,
       <<2565, 2570>>, <<2575, 2576>>, <<2579, 2600>>, <<2602, 2608>>, <<2610, 2611>>,
       <<2613, 2614>>, <<2616, 2617>>, <<2649, 2652>>, <<2654, 2654>>, <<2662, 2671>>,
       <<2674, 2676>>, <<2693, 2701>>, <<2703, 2705>>, <<2707, 2728>>, <<2730, 2736>>,
       <<2738, 2739>>, <<2741, 2745>>, <<2749, 2749>>, <<2768, 2768>>, <<2784, 2785>>,
       <<2790, 2799>>, <<2809, 2809>>, <<2821, 2828>>, <<2831, 2832>>, <<2835, 2856>>,
       <<2858, 2864>>, <<2866, 2867>>, <<2869, 2873>>, <<2877, 2877>>, <<2908, 2909>>,
       <<2911, 2913>>, <<2918, 2927>>, <<2929, 2935>>, <<2947, 2947>>, <<2949, 2954>>,
       <<2958, 2960>>, <<2962, 2965>>, <<2969, 2970>>, <<2972, 2972>>, <<2974, 2975>>,
       <<2979, 2980>>, <<2984, 2986>>, <<2990, 3001>>, <<3024, 3024>>, <<3046, 3058>>,
       <<3077, 3084>>, <<3086, 3088>>, <<3090, 3112>>, <<3114, 3129>>, <<3133, 3133>>,
       <<3160, 3162>>, <<3165, 3165>>, <<3168, 3169>>, <<3174, 3183>>, <<3192, 3198>>,
       <<3200, 3200>>, <<3205, 3212>>, <<3214, 3216>>, <<3218, 3240>>, <<3242, 3251>>,
       <<3253, 3257>>, <<3261, 3261>>, <<3293, 3294>>, <<3296, 3297>>, <<3302, 3311>>,
       <<3313, 3314>>, <<3332, 3340>>, <<3342, 3344>>, <<3346, 3386>>, <<3389, 3389>>,
       <<3406, 3406>>, <<3412, 3414>>, <<3416, 3425>>, <<3430, 3448>>, <<3450, 3455>>,
       <<3461, 3478>>, <<3482, 3505>>, <<3507, 3515>>, <<3517, 3517>>, <<3520, 3526>>,
       <<3558, 3567>>, <<3585, 3632>>, <<3634, 3635>>, <<3648, 3654>>, <<3664, 3673>>,
       <<3713, 3714>>, <<3716, 3716>>, <<3718, 3722>>, <<3724, 3747>>, <<3749, 3749>>,
       <<3751, 3760>>, <<3762, 3763>>, <<3773, 3773>>, <<3776, 3780>>, <<3782, 3782>>,
       <<3792, 3801>>, <<3804, 3807>>, <<3840, 3840>>, <<3872, 3891>>, <<3904, 3911>>,
       <<3913, 3948>>, <<3976, 3980>>, <<4096, 4138>>, <<4159, 4169>>, <<4176, 4181>>,
       <<4186, 4189>>, <<4193, 4193>>, <<4197, 4198>>, <<4206, 4208>>, <<4213, 4225>>,
       <<4238, 4238>>, <<4240, 4249>>, <<4256, 4293>>, <<4295, 4295>>, <<4301, 4301>>,
       <<4304, 4346>>, <<4348, 4680>>, <<4682, 4685>>, <<4688, 4694>>, <<4696, 4696>>,
       <<4698, 4701>>, <<4704, 4744>>, <<4746, 4749>>, <<4752, 4784>>, <<4786, 4789>>,
       <<4792, 4798>>, <<4800, 4800>>, <<4802, 4805>>, <<4808, 4822>>, <<4824, 4880>>,
       <<4882, 4885>>, <<4888, 4954>>, <<4969, 4988>>, <<4992, 5007>>, <<5024, 5109>>,
       <<5112, 5117>>, <<5121, 5740>>, <<5743, 5759>>, <<5761, 5786>>, <<5792, 5866>>,
       <<5870, 5880>>, <<5888, 5905>>, <<5919, 5937>>, <<5952, 5969>>, <<5984, 5996>>,
       <<5998, 6000>>, <<6016, 6067>>, <<6103, 6103>>, <<6108, 6108>>, <<6112, 6121>>,
       <<6128, 6137>>, <<6160, 6169>>, <<6176, 6264>>, <<6272, 6276>>, <<6279, 6312>>,
       <<6314, 6314>>, <<6320, 6389>>, <<6400, 6430>>, <<6470, 6509>>, <<6512, 6516>>,
       <<6528, 6571>>, <<6576, 6601>>, <<6608, 6618>>, <<6656, 6678>>, <<6688, 6740>>,
       <<6784, 6793>>, <<6800, 6809>>, <<6823, 6823>>, <<6917, 6963>>, <<6981, 6988>>,
       <<6992, 7001>>, <<7043, 7072>>, <<7086, 7141>>, <<7168, 7203>>, <<7232, 7241>>,
       <<7245, 7293>>, <<7296, 7304>>, <<7312, 7354>>, <<7357, 7359>>, <<7401, 7404>>,
       <<7406, 7411>>, <<7413, 7414>>, <<7418, 7418>>, <<7424, 7615>>, <<7680, 7957>>,
       <<7960, 7965>>, <<7968, 8005>>, <<8008, 8013>>, <<8016, 8023>>, <<8025, 8025>>,
       <<8027, 8027>>, <<8029, 8029>>, <<8031, 8061>>, <<8064, 8116>>, <<8118, 8124>>,
       <<8126, 8126>>, <<8130, 8132>>, <<8134, 8140>>, <<8144, 8147>>, <<8150, 8155>>,
       <<8160, 8172>>, <<8178, 8180>>, <<8182, 8188>>, <<8304, 8305>>, <<8308, 8313>>,
       <<8319, 8329>>, <<8336, 8348>>, <<8450, 8450>>, <<8455, 8455>>, <<8458, 8467>>,
       <<8469, 8469>>, <<8473, 8477>>, <<8484, 8484>>, <<8486, 8486>>, <<8488, 8488>>,
       <<8490, 8493>>, <<8495, 8505>>, <<8508, 8511>>, <<8517, 8521>>, <<8526, 8526>>,
       <<8528, 8585>>, <<9312, 9371>>, <<9450, 9471>>, <<10102, 10131>>, <<11264, 11492>>,
       <<11499, 11502>>, <<11506, 11507>>, <<11517, 11517>>, <<11520, 11557>>, <<11559, 11559>>,
       <<11565, 11565>>, <<11568, 11623>>, <<11631, 11631>>, <<11648, 11670>>, <<11680, 11686>>,
       <<11688, 11694>>, <<11696, 11702>>, <<11704, 11710>>, <<11712, 11718>>, <<11720, 11726>>,
       <<11728, 11734>>, <<11736, 11742>>, <<11823, 11823>>, <<12293, 12295>>, <<12321, 12329>>,
       <<12337, 12341>>, <<12344, 12348>>, <<12353, 12438>>, <<12445, 12447>>, <<12449, 12538>>,
       <<12540, 12543>>, <<12549, 12591>>, <<12593, 12686>>, <<12690, 12693>>, <<12704, 12735>>,
       <<12784, 12799>>, <<12832, 12841>>, <<12872, 12879>>, <<12881, 12895>>, <<12928, 12937>>,
       <<12977, 12991>>, <<13312, 19903>>, <<19968, 42124>>, <<42192, 42237>>, <<42240, 42508>>,
       <<42512, 42539>>, <<42560, 42606>>, <<42623, 42653>>, <<42656, 42735>>, <<42775, 42783>>,
       <<42786, 42888>>, <<42891, 42954>>, <<42960, 42961>>, <<42963, 42963>>, <<42965, 42969>>,
       <<42994, 43009>>, <<43011, 43013>>, <<43015, 43018>>, <<43020, 43042>>, <<43056, 43061>>,
       <<43072, 43123>>, <<43138, 43187>>, <<43216, 43225>>, <<43250, 43255>>, <<43259, 43259>>,
       <<43261, 43262>>, <<43264, 43301>>, <<43312, 43334>>, <<43360, 43388>>, <<43396, 43442>>,
       <<43471, 43481>>, <<43488, 43492>>, <<43494, 43518>>, <<43520, 43560>>, <<43584, 43586>>,
       <<43588, 43595>>, <<43600, 43609>>, <<43616, 43638>>, <<43642, 43642>>, <<43646, 43695>>,
       <<43697, 43697>>, <<43701, 43702>>, <<43705, 43709>>, <<43712, 43712>>, <<43714, 43714>>,
       <<43739, 43741>>, <<43744, 43754>>, <<43762, 43764>>, <<43777, 43782>>, <<43785, 43790>>,
       <<43793, 43798>>, <<43808, 43814>>, <<43816, 43822>>, <<43824, 43866>>, <<43868, 43881>>,
       <<43888, 44002>>, <<44016, 44025>>, <<44032, 55203>>, <<55216, 55238>>, <<55243, 55291>>,
       <<63744, 64109>>, <<64112, 64217>>, <<64256, 64262>>, <<64275, 64279>>, <<64285, 64285>>,
       <<64287, 64296>>, <<64298, 64310>>, <<64312, 64316>>, <<64318, 64318>>, <<64320, 64321>>,
       <<64323, 64324>>, <<64326, 64433>>, <<64467, 64829>>, <<64848, 64911>>, <<64914, 64967>>,
       <<65008, 65019>>, <<65136, 65140>>, <<65142, 65276>>, <<65296, 65305>>, <<65313, 65338>>,
       <<65345, 65370>>, <<65382, 65470>>, <<65474, 65479>>, <<65482, 65487>>, <<65490, 65495>>,
       <<65498, 65500>>, <<65536, 65547>>, <<65549, 65574>>, <<65576, 65594>>, <<65596, 65597>>,
       <<65599, 65613>>, <<65616, 65629>>, <<65664, 65786>>, <<65799, 65843>>, <<65856, 65912>>,
       <<65930, 65931>>, <<66176, 66204>>, <<66208, 66256>>, <<66273, 66299>>, <<66304, 66339>>,
       <<66349, 66378>>, <<66384, 66421>>, <<66432, 66461>>, <<66464, 66499>>, <<66504, 66511>>,
       <<66513, 66517>>, <<66560, 66717>>, <<66720, 66729>>, <<66736, 66771>>, <<66776, 66811>>,
       <<66816, 66855>>, <<66864, 66915>>, <<66928, 66938>>, <<66940, 66954>>, <<66956, 66962>>,
       <<66964, 66965>>, <<66967, 66977>>, <<66979, 66993>>, <<66995, 67001>>, <<67003, 67004>>,
       <<67072, 67382>>, <<67392, 67413>>, <<67424, 67431>>, <<67456, 67461>>, <<67463, 67504>>,
       <<67506, 67514>>, <<67584, 67589>>, <<67592, 67592>>, <<67594, 67637>>, <<67639, 67640>>,
       <<67644, 67644>>, <<67647, 67669>>, <<67672, 67702>>, <<67705, 67742>>, <<67751, 67759>>,
       <<67808, 67826>>, <<67828, 67829>>, <<67835, 67867>>, <<67872, 67897>>, <<67968, 68023>>,
       <<68028, 68047>>, <<68050, 68096>>, <<68112, 68115>>, <<68117, 68119>>, <<68121, 68149>>,
       <<68160, 68168>>, <<68192, 68222>>, <<68224, 68255>>, <<68288, 68295>>, <<68297, 68324>>,
       <<68331, 68335>>, <<68352, 68405>>, <<68416, 68437>>, <<68440, 68466>>, <<68472, 68497>>,
       <<68521, 68527>>, <<68608, 68680>>, <<68736, 68786>>, <<68800, 68850>>, <<68858, 68899>>,
       <<68912, 68921>>, <<69216, 69246>>, <<69248, 69289>>, <<69296, 69297>>, <<69376, 69415>>,
       <<69424, 69445>>, <<69457, 69460>>, <<69488, 69505>>, <<69552, 69579>>, <<69600, 69622>>,
       <<69635, 69687>>, <<69714, 69743>>, <<69745, 69746>>, <<69749, 69749>>, <<69763, 69807>>,
       <<69840, 69864>>, <<69872, 69881>>, <<69891, 69926>>, <<69942, 69951>>, <<69956, 69956>>,
       <<69959, 69959>>, <<69968, 70002>>, <<70006, 70006>>, <<70019, 70066>>, <<70081, 70084>>,
       <<70096, 70106>>, <<70108, 70108>>, <<70113, 70132>>, <<70144, 70161>>, <<70163, 70187>>,
       <<70272, 70278>>, <<70280, 70280>>, <<70282, 70285>>, <<70287, 70301>>, <<70303, 70312>>,
       <<70320, 70366>>, <<70384, 70393>>, <<70405, 70412>>, <<70415, 70416>>, <<70419, 70440>>,
       <<70442, 70448>>, <<70450, 70451>>, <<70453, 70457>>, <<70461, 70461>>, <<70480, 70480>>,
       <<70493, 70497>>, <<70656, 70708>>, <<70727, 70730>>, <<70736, 70745>>, <<70751, 70753>>,
       <<70784, 70831>>, <<70852, 70853>>, <<70855, 70855>>, <<70864, 70873>>, <<71040, 71086>>,
       <<71128, 71131>>, <<71168, 71215>>, <<71236, 71236>>, <<71248, 71257>>, <<71296, 71338>>,
       <<71352, 71352>>, <<71360, 71369>>, <<71424, 71450>>, <<71472, 71483>>, <<71488, 71494>>,
       <<71680, 71723>>, <<71840, 71922>>, <<71935, 71942>>, <<71945, 71945>>, <<71948, 71955>>,
       <<71957, 71958>>, <<71960, 71983>>, <<71999, 71999>>, <<72001, 72001>>, <<72016, 72025>>,
       <<72096, 72103>>, <<72106, 72144>>, <<72161, 72161>>, <<72163, 72163>>, <<72192, 72192>>,
       <<72203, 72242>>, <<72250, 72250>>, <<72272, 72272>>, <<72284, 72329>>, <<72349, 72349>>,
       <<72368, 72440>>, <<72704, 72712>>, <<72714, 72750>>, <<72768, 72768>>, <<72784, 72812>>,
       <<72818, 72847>>, <<72960, 72966>>, <<72968, 72969>>, <<72971, 73008>>, <<73030, 73030>>,
       <<73040, 73049>>, <<73056, 73061>>, <<73063, 73064>>, <<73066, 73097>>, <<73112, 73112>>,
       <<73120, 73129>>, <<73440, 73458>>, <<73648, 73648>>, <<73664, 73684>>, <<73728, 74649>>,
       <<74752, 74862>>, <<74880, 75075>>, <<77712, 77808>>, <<77824, 78894>>, <<82944, 83526>>,
       <<92160, 92728>>, <<92736, 92766>>, <<92768, 92777>>, <<92784, 92862>>, <<92864, 92873>>,
       <<92880, 92909>>, <<92928, 92975>>, <<92992, 92995>>, <<93008, 93017>>, <<93019, 93025>>,
       <<93027, 93047>>, <<93053, 93071>>, <<93760, 93846>>, <<93952, 94026>>, <<94032, 94032>>,
       <<94099, 94111>>, <<94176, 94177>>, <<94179, 94179>>, <<94208, 100343>>, <<100352, 101589>>,
       <<101632, 101640>>, <<110576, 110579>>, <<110581, 110587>>, <<110589, 110590>>, <<110592, 110882>>,
       <<110928, 110930>>, <<110948, 110951>>, <<110960, 111355>>, <<113664, 113770>>, <<113776, 113788>>,
       <<113792, 113800>>, <<113808, 113817>>, <<119520, 119539>>, <<119648, 119672>>, <<119808, 119892>>,
       <<119894, 119964>>, <<119966, 119967>>, <<119970, 119970>>, <<119973, 119974>>, <<119977, 119980>>,
       <<119982, 119993>>, <<119995, 119995>>, <<119997, 120003>>, <<120005, 120069>>, <<120071, 120074>>,
       <<120077, 120084>>, <<120086, 120092>>, <<120094, 120121>>, <<120123, 120126>>, <<120128, 120132>>,
       <<120134, 120134>>, <<120138, 120144>>, <<120146, 120485>>, <<120488, 120512>>, <<120514, 120538>>,
       <<120540, 120570>>, <<120572, 120596>>, <<120598, 120628>>, <<120630, 120654>>, <<120656, 120686>>,
       <<120688, 120712>>, <<120714, 120744>>, <<120746, 120770>>, <<120772, 120779>>, <<120782, 120831>>,
       <<122624, 122654>>, <<123136, 123180>>, <<123191, 123197>>, <<123200, 123209>>, <<123214, 123214>>,
       <<123536, 123565>>, <<123584, 123627>>, <<123632, 123641>>, <<124896, 124902>>, <<124904, 124907>>,
       <<124909, 124910>>, <<124912, 124926>>, <<124928, 125124>>, <<125127, 125135>>, <<125184, 125251>>,
       <<125259, 125259>>, <<125264, 125273>>, <<126065, 126123>>, <<126125, 126127>>, <<126129, 126132>>,
       <<126209, 126253>>, <<126255, 126269>>, <<126464, 126467>>, <<126469, 126495>>, <<126497, 126498>>,
       <<126500, 126500>>, <<126503, 126503>>, <<126505, 126514>>, <<126516, 126519>>, <<126521, 126521>>,
       <<126523, 126523>>, <<126530, 126530>>, <<126535, 126535>>, <<126537, 126537>>, <<126539, 126539>>,
       <<126541, 126543>>, <<126545, 126546>>, <<126548, 126548>>, <<126551, 126551>>, <<126553, 126553>>,
       <<126555, 126555>>, <<126557, 126557>>, <<126559, 126559>>, <<126561, 126562>>, <<126564, 126564>>,
       <<126567, 126570>>, <<126572, 126578>>, <<126580, 126583>>, <<126585, 126588>>, <<126590, 126590>>,
       <<126592, 126601>>, <<126603, 126619>>, <<126625, 126627>>, <<126629, 126633>>, <<126635, 126651>>,
       <<127232, 127244>>, <<130032, 130041>>, <<131072, 173791>>, <<173824, 177976>>, <<177984, 178205>>,
       <<178208, 183969>>, <<183984, 191456>>, <<194560, 195101>>, <<196608, 201546>> >>

WordChars == Chars(WordRanges)

\* re.findall(r'\b\w\w+\b', s): the maximal runs of word characters of two
\* characters or more
RECURSIVE Tokenize(_, _, _)
Tokenize(s, i, cur) ==
    IF i > Len(s) THEN (IF Len(cur) >= 2 THEN <<cur>> ELSE <<>>)
    ELSE IF s[i] \in WordChars THEN Tokenize(s, i + 1, Append(cur, s[i]))
    ELSE (IF Len(cur) >= 2 THEN <<cur>> ELSE <<>>) \o Tokenize(s, i + 1, <<>>)

\* the tokens of the lowercased text
Tokens(s) == Tokenize(LowerStr(s), 1, <<>>)

TermCount(s, t) ==
    LET toks == Tokens(s) IN Cardinality({i \in 1..Len(toks) : toks[i] = t})

Vocabulary(docs) ==
    UNION {{Tokens(docs[i])[k] : k \in 1..Len(Tokens(docs[i]))} : i \in 1..Len(docs)}

DocFreq(docs, t) == Cardinality({i \in 1..Len(docs) : TermCount(docs[i], t) > 0})

\* TfidfVectorizer().fit(sentences)
Fit(docs) ==
    [vocabulary |-> Vocabulary(docs),
     n |-> Len(docs),
     df |-> [t \in Vocabulary(docs) |-> DocFreq(docs, t)]]

\* idf(t) = ln((1 + n) / (1 + df(t))) + 1, in fixed point with 8 units to
\* 1; Ln8(k) is 8 * ln(k) rounded
Ln8(k) ==
    CASE k = 1 -> 0 [] k = 2 -> 6 [] k = 3 -> 9 [] k = 4 -> 11 [] k = 5 -> 13
      [] k = 6 -> 14 [] k = 7 -> 16 [] OTHER -> 17

Idf(v, t) == 8 + Ln8(1 + v.n) - Ln8(1 + v.df[t])

\* vectorizer.transform: the tf * idf weight of every vocabulary term (the
\* l2 normalisation is a positive factor that cosine_similarity divides out)
Transform(v, s) == [t \in v.vocabulary |-> TermCount(s, t) * Idf(v, t)]

RECURSIVE SumOver(_, _)
SumOver(f, S) ==
    IF S = {} THEN 0
    ELSE LET t == CHOOSE x \in S : TRUE IN f[t] + SumOver(f, S \ {t})

Dot(a, b) == SumOver([t \in DOMAIN a |-> a[t] * b[t]], DOMAIN a)

\* cosine_similarity of the vectors a and b, squared, as a fraction
\* num / den over the common factor Dot(a, a): all similarities are >= 0,
\* so the squares order as the similarities do; a zero vector has
\* similarity 0 with everything
Cosine(a, b) ==
    IF Dot(a, a) = 0 \/ Dot(b, b) = 0
    THEN [num |-> 0, den |-> 1]
    ELSE [num |-> Dot(a, b) * Dot(a, b), den |-> Dot(b, b)]

\* sims = cosine_similarity(q_vec, sentence_vectors).flatten()
Sims(v, q, ss) ==
    [i \in 1..Len(ss) |-> Cosine(Transform(v, q), Transform(v, ss[i]))]

SimLess(x, y) == x.num * y.den < y.num * x.den

\* sims.argsort(): the orders of the indices by ascending similarity. The
\* default sort kind is not stable, so indices of equal similarity can come
\* in any order.
ArgSort(sims) ==
    LET n == Len(sims)
    IN { order \in [1..n -> 1..n] :
            /\ \A i \in 1..n : \A j \in 1..n : i # j => order[i] # order[j]
            /\ \A i \in 1..n : \A j \in 1..n :
                  i < j => ~SimLess(sims[order[j]], sims[order[i]]) }

\* variant: the ascending order is not reversed
TopIndicesAscending(order, top_k) ==
    SubSeq(order, 1, IF top_k < Len(order) THEN top_k ELSE Len(order))

\* [::-1][:top_k] of an order
TopIndices(order, top_k) ==
    LET desc == Reverse(order)
    IN SubSeq(desc, 1, IF top_k < Len(desc) THEN top_k ELSE Len(desc))

\* answer_question: the units that can be placed after the fixed prefix of
\* the answer, one for each order argsort can return
answer_question(q, ss, v, top_k) ==
    { ss[TopIndices(order, top_k)[1]] : order \in ArgSort(Sims(v, q, ss)) }

(***************************************************************************)
(* notes_summarizer.py : run-length strings                                *)
(***************************************************************************)
Run(c, k) == [ch |-> c, n |-> k]

AddRunLen(k, r) == k + r.n

\* len(s)
StrLen(s) == ForEach(AddRunLen, 0, s, 1, Len(s))

\* one character run of the scan of str.split(): whitespace ends the
\* current word, anything else extends it
SplitStep(st, r) ==
    IF r.ch \in Whitespace
    THEN [out |-> IF st.cur # <<>> THEN Append(st.out, st.cur) ELSE st.out,
          cur |-> <<>>]
    ELSE [out |-> st.out, cur |-> Append(st.cur, r)]

\* str.split(): the maximal pieces without whitespace
Split(s) ==
    LET st == ForEach(SplitStep, [out |-> <<>>, cur |-> <<>>], s, 1, Len(s))
    IN IF st.cur # <<>> THEN Append(st.out, st.cur) ELSE st.out

\* sep.join(parts)
Join(sep, parts) ==
    IF parts = <<>> THEN <<>>
    ELSE ForEach(LAMBDA a, part : a \o sep \o part, parts[1], parts, 2, Len(parts))

RECURSIVE LStripRuns(_)
LStripRuns(s) ==
    IF s # <<>> /\ Head(s).ch \in Whitespace THEN LStripRuns(Tail(s)) ELSE s

RECURSIVE RStripRuns(_)
RStripRuns(s) ==
    IF s # <<>> /\ Last(s).ch \in Whitespace
    THEN RStripRuns(SubSeq(s, 1, Len(s) - 1)) ELSE s

StripRuns(s) == RStripRuns(LStripRuns(s))

(***************************************************************************)
(* notes_summarizer.py : summarize, the chunking loop                      *)
(***************************************************************************)
max_chunk_length == 1024

FlushNow(current_length) == current_length >= max_chunk_length

\* the body of  for word in words
ChunkStep(st, word) ==
    LET cc == Append(st.current_chunk, word)
        cl == st.current_length + StrLen(word) + 1
    IN IF FlushNow(cl)
       THEN [chunks |-> Append(st.chunks, Join(<<Run(SPACE, 1)>>, cc)),
             current_chunk |-> <<>>, current_length |-> 0]
       ELSE [chunks |-> st.chunks, current_chunk |-> cc, current_length |-> cl]

\* the list chunks after the first k rounds of  for word in words
ChunksAfter(words, k) ==
    ForEach(ChunkStep,
            [chunks |-> <<>>, current_chunk |-> <<>>, current_length |-> 0],
            words, 1, k).chunks

\* variant: the final partial chunk is not flushed
ChunkLoopNoFinalFlush(words) ==
    ForEach(ChunkStep,
            [chunks |-> <<>>, current_chunk |-> <<>>, current_length |-> 0],
            words, 1, Len(words)).chunks

\* for word in words: ... ; if current_chunk: chunks.append(...)
ChunkLoop(words) ==
    LET st == ForEach(ChunkStep,
                      [chunks |-> <<>>, current_chunk |-> <<>>, current_length |-> 0],
                      words, 1, Len(words))
    IN IF st.current_chunk # <<>>
       THEN Append(st.chunks, Join(<<Run(SPACE, 1)>>, st.current_chunk))
       ELSE st.chunks

Chunks(t) == ChunkLoop(Split(t))

(***************************************************************************)
(* notes_summarizer.py : summarize, the summarization loop                 *)
(***************************************************************************)
MinChunkWords == 50

\* variant: a chunk of exactly 50 words is summarized too
QualifiesAtLeast(chunk) == Len(Split(chunk)) >= MinChunkWords

Qualifies(chunk) == Len(Split(chunk)) > MinChunkWords

\* summaries.append(summary[0]['summary_text']); the field chunk records the
\* enumerate index of the chunk the model was invoked on
RECURSIVE SummarizeLoop(_, _, _)
SummarizeLoop(cks, i, out) ==
    IF i > Len(cks) THEN <<>>
    ELSE (IF Qualifies(cks[i])
          THEN <<[chunk |-> i - 1, summary_text |-> out]>> ELSE <<>>)
         \o SummarizeLoop(cks, i + 1, out)

Summaries(cks, out) == SummarizeLoop(cks, 1, out)

(***************************************************************************)
(* notes_summarizer.py : format_bullet_points                              *)
(***************************************************************************)
\* summary.replace('. ', '.|')
RECURSIVE ReplaceDotSpace(_, _)
ReplaceDotSpace(s, i) ==
    IF i > Len(s) THEN <<>>
    ELSE IF s[i].ch = DOT /\ i < Len(s) /\ s[i + 1].ch = SPACE
         THEN <<s[i], Run(BAR, 1)>>
              \o (IF s[i + 1].n > 1 THEN <<Run(SPACE, s[i + 1].n - 1)>> ELSE <<>>)
              \o ReplaceDotSpace(s, i + 2)
    ELSE <<s[i]>> \o ReplaceDotSpace(s, i + 1)

EmptyPieces(k) == [j \in 1..k |-> <<>>]

\* .split('|')
RECURSIVE SplitBar(_, _, _)
SplitBar(s, i, cur) ==
    IF i > Len(s) THEN <<cur>>
    ELSE IF s[i].ch = BAR
         THEN <<cur>> \o EmptyPieces(s[i].n - 1) \o SplitBar(s, i + 1, <<>>)
    ELSE SplitBar(s, i + 1, Append(cur, s[i]))

MeaningfulLen == 15

RECURSIVE BulletsOf(_)
BulletsOf(pieces) ==
    IF pieces = <<>> THEN <<>>
    ELSE (IF StrLen(StripRuns(Head(pieces))) > MeaningfulLen
          THEN <<<<Run(BULLET, 1), Run(SPACE, 1)>> \o StripRuns(Head(pieces))>>
          ELSE <<>>)
         \o BulletsOf(Tail(pieces))

RECURSIVE BulletPoints(_)
BulletPoints(sums) ==
    IF sums = <<>> THEN <<>>
    ELSE BulletsOf(SplitBar(ReplaceDotSpace(Head(sums).summary_text, 1), 1, <<>>))
         \o BulletPoints(Tail(sums))

format_bullet_points(sums) == Join(<<Run(NEWLINE, 1)>>, BulletPoints(sums))

(***************************************************************************)
(* notes_summarizer.py : transcribe                                        *)
(***************************************************************************)
\* transcript += segment.text + " "  for every segment, then .strip()
AddSegment(t, segment) == t \o segment.text \o <<Run(SPACE, 1)>>

ConcatSegments(segs) == ForEach(AddSegment, <<>>, segs, 1, Len(segs))

TranscriptOf(segs) == StripRuns(ConcatSegments(segs))

\* timestamps.append({"start": ..., "end": ..., "text": ...})
TimestampsOf(segs) ==
    [i \in 1..Len(segs) |->
        [start |-> segs[i].start, end |-> segs[i].end, text |-> segs[i].text]]

(***************************************************************************)
(* notes_summarizer.py : save_notes.  The file is the sequence of the      *)
(* strings written to it; a fixed caption is one run of its own.           *)
(***************************************************************************)
\* a string literal, given by its characters
Literal(cs) == [i \in 1..Len(cs) |-> Run(cs[i], 1)]

\* c * 60 + "\n"
Rule(c) == <<Run(c, 60), Run(NEWLINE, 1)>>

\* str(d) of one digit
DigitChar(d) == ZERO + d

RECURSIVE Decimal(_)
Decimal(k) ==
    IF k < 10 THEN <<Run(DigitChar(k), 1)>>
    ELSE Decimal(k \div 10) \o <<Run(DigitChar(k % 10), 1)>>

\* {k:02d}
Format02d(k) == IF k < 10 THEN <<Run(ZERO, 1)>> \o Decimal(k) ELSE Decimal(k)

\* line 148: the text after U+1F4DD
TitleCaption ==
    Literal(<<128221>> \o
            Str(<< " ", "I", "M", "P", "O", "R", "T", "A", "N", "T", " ", "P",
                   "O", "I", "N", "T", "S", " ", "-", " ", "A", "I", " ", "N",
                   "O", "T", "E", "S", " ", "S", "U", "M", "M", "A", "R", "Y" >>))
        \o <<Run(NEWLINE, 1)>>

\* line 151: the text after U+1F3AF
TakeawaysCaption ==
    Literal(<<127919>> \o
            Str(<< " ", "K", "E", "Y", " ", "T", "A", "K", "E", "A", "W", "A",
                   "Y", "S" >>))
        \o <<Run(NEWLINE, 1)>>

\* line 156: the text after U+1F4A1
NoteCaption ==
    Literal(<<128161>> \o
            Str(<< " ", "N", "O", "T", "E", ":", " ", "F", "u", "l", "l", " ",
                   "t", "r", "a", "n", "s", "c", "r", "i", "p", "t", " ", "a",
                   "v", "a", "i", "l", "a", "b", "l", "e", " ", "i", "f", " ",
                   "n", "e", "e", "d", "e", "d" >>))
        \o <<Run(NEWLINE, 1)>>

\* line 157
ClosingCaption ==
    Literal(Str(<< "T", "h", "e", " ", "a", "b", "o", "v", "e", " ", "p", "o",
                   "i", "n", "t", "s", " ", "c", "a", "p", "t", "u", "r", "e",
                   " ", "t", "h", "e", " ", "e", "s", "s", "e", "n", "t", "i",
                   "a", "l", " ", "i", "n", "f", "o", "r", "m", "a", "t", "i",
                   "o", "n", "." >>))
        \o <<Run(NEWLINE, 2)>>

\* line 160: the text after U+23F1 U+FE0F
TimestampsCaption ==
    Literal(<<9201, 65039>> \o
            Str(<< " ", "T", "I", "M", "E", "S", "T", "A", "M", "P", "S" >>))
        \o <<Run(NEWLINE, 1)>>

\* lines 147-161: the banners and the summary
HeaderWrites(sm) ==
    << Rule(Ord("=")),
       TitleCaption,
       Rule(Ord("=")) \o <<Run(NEWLINE, 1)>>,
       TakeawaysCaption,
       Rule(HYPHEN) \o <<Run(NEWLINE, 1)>>,
       sm \o <<Run(NEWLINE, 2)>>,
       <<Run(NEWLINE, 1)>> \o Rule(Ord("=")) \o <<Run(NEWLINE, 1)>>,
       NoteCaption,
       ClosingCaption,
       Rule(Ord("=")),
       TimestampsCaption,
       Rule(Ord("=")) \o <<Run(NEWLINE, 1)>> >>

TimestampStride == 5
TimestampCap == 40

\* variant: the cap includes index 40
SelectedInclusive(i) == i % TimestampStride = 0 /\ i <= TimestampCap

\* if i % 5 == 0 and i < 40
Selected(i) == i % TimestampStride = 0 /\ i < TimestampCap

\* f"[{minutes:02d}:{seconds:02d}] {ts['text']}\n"
TimestampLine(ts) ==
    <<Run(Ord("["), 1)>> \o Format02d(ts.start \div 60) \o <<Run(Ord(":"), 1)>>
        \o Format02d(ts.start % 60) \o <<Run(Ord("]"), 1), Run(SPACE, 1)>>
        \o ts.text \o <<Run(NEWLINE, 1)>>

\* the body of  for i, ts in enumerate(timestamps)
TimestampStep(st, ts) ==
    [i |-> st.i + 1,
     out |-> IF Selected(st.i) THEN Append(st.out, TimestampLine(ts)) ELSE st.out]

TimestampWrites(tss) ==
    ForEach(TimestampStep, [i |-> 0, out |-> <<>>], tss, 1, Len(tss)).out

\* the writes save_notes issues, in order
NotesFile(sm, tss) == HeaderWrites(sm) \o TimestampWrites(tss)

\* a surrogate (U+D800 to U+DFFF) has no encoding: f.write raises
\* UnicodeEncodeError
Encodable(c) == c < 55296 \/ c > 57343

\* open(output_file, 'w', encoding='utf-8'): the number of bytes of the
\* encoding of one character; a surrogate has none
Utf8Len(c) ==
    CASE c < 128 -> 1
      [] c >= 128 /\ c < 2048 -> 2
      [] c >= 2048 /\ c < 65536 /\ Encodable(c) -> 3
      [] c >= 65536 -> 4

EncodableWrite(w) == \A i \in 1..Len(w) : Encodable(w[i].ch)

\* the writes that come before the first one that cannot be encoded
EncodableWrites(ws) ==
    LET bad == {i \in 1..Len(ws) : ~EncodableWrite(ws[i])}
    IN IF bad = {} THEN ws
       ELSE SubSeq(ws, 1, (CHOOSE i \in bad : \A j \in bad : i <= j) - 1)

AddRunBytes(k, r) == k + r.n * Utf8Len(r.ch)

\* len(s.encode('utf-8'))
ByteLen(s) == ForEach(AddRunBytes, 0, s, 1, Len(s))

AddWriteBytes(k, w) == k + ByteLen(w)

\* the number of bytes the writes ws hand to the file
FileBytes(ws) == ForEach(AddWriteBytes, 0, ws, 1, Len(ws))

\* one run of a write of which st.left bytes reach the file: the whole
\* characters that fit, then the bytes of a character cut in two
CutRunStep(st, r) ==
    IF st.left = 0 THEN st
    ELSE LET w == Utf8Len(r.ch)
             k == IF st.left \div w < r.n THEN st.left \div w ELSE r.n
             rest == st.left - k * w
         IN [left |-> IF k < r.n THEN 0 ELSE rest,
             out |-> IF k > 0 THEN Append(st.out, Run(r.ch, k)) ELSE st.out,
             partial |-> IF k < r.n /\ rest > 0
                         THEN <<Run(r.ch, rest)>> ELSE <<>>]

CutWriteStep(st, w) ==
    IF st.left = 0 THEN st
    ELSE LET c == ForEach(CutRunStep,
                          [left |-> st.left, out |-> <<>>, partial |-> <<>>],
                          w, 1, Len(w))
         IN [left |-> c.left,
             writes |-> IF c.out # <<>> THEN Append(st.writes, c.out)
                        ELSE st.writes,
             partial |-> c.partial]

\* the file when the first k bytes of the writes ws have reached it: the
\* writes pass through the buffer of the file object, so the cut can fall
\* inside a write and inside a character (partial: the character and the
\* number of its bytes in the file)
FileCut(ws, k) ==
    LET c == ForEach(CutWriteStep,
                     [left |-> k, writes |-> <<>>, partial |-> <<>>],
                     ws, 1, Len(ws))
    IN [exists |-> TRUE, writes |-> c.writes, partial |-> c.partial]

\* the file save_notes leaves when it returns
SavedFile(sm, tss) ==
    [exists |-> TRUE, writes |-> NotesFile(sm, tss), partial |-> <<>>]

(***************************************************************************)
(* Inputs.                                                                 *)
(***************************************************************************)
\* the characters of the explored texts; 1635 is the Arabic-Indic digit
\* three (U+0663) and 160 the no-break space (U+00A0)
SplitAlphabet ==
    { Ord("a"), Ord("b"), SPACE, NEWLINE, BULLET, HYPHEN, ASTERISK, Ord("1"),
      RPAREN, 1635, 160 }

\* the units of the explored knowledge bases; 233 is the letter e with
\* acute accent (U+00E9)
UnitCatalogue ==
    { Str(<<"a", "b">>), Str(<<"A", "B">>), Str(<<"a", "b", " ", "a", "b">>),
      Str(<<"a", "b", " ", "c", "d">>), Str(<<"a">>), <<233, 233>> }

\* the explored questions; <<201, 201>> is the unit <<233, 233>> in
\* capitals, <<913, 931>> a capital alpha and a capital sigma, which no
\* unit holds
Questions ==
    UnitCatalogue \cup { Str(<<"c", "d", " ", "a", "b">>), <<201, 201>>,
                         <<913, 931>> }

\* a block stands for count words, each the character ch repeated len
\* times; 2325 is the Devanagari letter ka (U+0915)
Blocks == [ch : {Ord("a"), 2325}, len : {1, 19, 600}, count : {1, 50, 51}]

BlockText(b) == Join(<<Run(SPACE, 1)>>, [j \in 1..b.count |-> <<Run(b.ch, b.len)>>])

\* the blocks' words, one space inside a block and two between blocks
TextOf(bs) == Join(<<Run(SPACE, 2)>>, [j \in 1..Len(bs) |-> BlockText(bs[j])])

EngineOutputs ==
    { <<Run(Ord("a"), 20), Run(DOT, 1), Run(SPACE, 1), Run(Ord("b"), 10), Run(DOT, 1)>>,
      <<Run(Ord("a"), 14), Run(DOT, 1), Run(SPACE, 2), Run(Ord("b"), 16)>>,
      <<Run(2325, 18), Run(DOT, 1), Run(SPACE, 1), Run(233, 3)>> }

\* n segments of step seconds each, segment i saying one word of L + i % 4
\* letters after a leading space, every third one in Devanagari
Segments(n, step, L) ==
    [i \in 1..n |->
        [start |-> (i - 1) * step, end |-> i * step,
         text |-> <<Run(SPACE, 1),
                    Run(IF i % 3 = 0 THEN 2325 ELSE Ord("a"), L + ((i - 1) % 4))>>]]

SegmentSteps == {1, 7, 61}

PipelineSegments == {Segments(n, 7, 17) : n \in {0, 6, 45, 110}}

NoVectorizer == [vocabulary |-> {}, n |-> 0, df |-> <<>>]
NoOutput == [exists |-> FALSE, writes |-> <<>>, partial |-> <<>>]
NoResult == [value |-> Unset, transcript |-> <<>>, summary |-> <<>>,
             timestamps |-> <<>>]

IdleChat ==
    /\ text = <<>> /\ sentences = <<>> /\ vectorizer = NoVectorizer
    /\ question = <<>> /\ answer = <<>>

IdleSummarize ==
    /\ transcript = <<>> /\ engine = <<>> /\ chunks = <<>>
    /\ summaries = <<>> /\ summary = <<>>

IdleNotes == timestamps = <<>> /\ outfile = NoOutput

IdlePipeline ==
    /\ tempAudio = FALSE /\ audio_path = Unset /\ calls = <<>>
    /\ result = NoResult

(***************************************************************************)
(* chat.py : split_into_sentences applied to a text                        *)
(***************************************************************************)
InitSplit ==
    /\ pc = "split"
    /\ text \in SeqsUpTo(SplitAlphabet, MaxTextLen)
    /\ sentences = <<>> /\ vectorizer = NoVectorizer
    /\ question = <<>> /\ answer = <<>>
    /\ IdleSummarize /\ IdleNotes /\ IdlePipeline

SplitIntoSentences ==
    /\ pc = "split"
    /\ sentences' = split_into_sentences(text)
    /\ pc' = "split_done"
    /\ UNCHANGED <<text, vectorizer, question, answer>>
    /\ UNCHANGED <<sumVars, noteVars, pipeVars>>

NextSplit == SplitIntoSentences

SpecSplit == InitSplit /\ [][NextSplit]_vars

(***************************************************************************)
(* chat.py : the demo, build_knowledge_base then the question loop         *)
(***************************************************************************)
InitQA ==
    /\ pc = "build"
    /\ \E units \in SeqsUpTo(UnitCatalogue, MaxUnits) : text = Join(<<NEWLINE>>, units)
    /\ sentences = <<>> /\ vectorizer = NoVectorizer
    /\ question = <<>> /\ answer = <<>>
    /\ IdleSummarize /\ IdleNotes /\ IdlePipeline

\* TfidfVectorizer().fit raises ValueError on an empty vocabulary
BuildKnowledgeBase ==
    /\ pc = "build"
    /\ LET ss == split_into_sentences(text)
       IN /\ sentences' = ss
          /\ IF Vocabulary(ss) = {}
             THEN pc' = "ValueError" /\ UNCHANGED vectorizer
             ELSE pc' = "ready" /\ vectorizer' = Fit(ss)
    /\ UNCHANGED <<text, question, answer>>
    /\ UNCHANGED <<sumVars, noteVars, pipeVars>>

AnswerQuestion ==
    /\ pc = "ready"
    /\ \E q \in Questions :
          /\ question' = q
          /\ answer' \in answer_question(q, sentences, vectorizer, 1)
    /\ pc' = "ready"
    /\ UNCHANGED <<text, sentences, vectorizer>>
    /\ UNCHANGED <<sumVars, noteVars, pipeVars>>

\* query.lower() == "exit"
Exit ==
    /\ pc = "ready"
    /\ pc' = "exit"
    /\ UNCHANGED <<chatVars, sumVars, noteVars, pipeVars>>

NextQA == BuildKnowledgeBase \/ AnswerQuestion \/ Exit

SpecQA == InitQA /\ [][NextQA]_vars

(***************************************************************************)
(* notes_summarizer.py : summarize applied to a text                       *)
(***************************************************************************)
InitChunk ==
    /\ pc = "summarize"
    /\ \E bs \in SeqsUpTo(Blocks, MaxBlocks) : transcript = TextOf(bs)
    /\ engine \in EngineOutputs
    /\ chunks = <<>> /\ summaries = <<>> /\ summary = <<>>
    /\ IdleChat /\ IdleNotes /\ IdlePipeline

SummarizeText ==
    /\ pc = "summarize"
    /\ chunks' = Chunks(transcript)
    /\ summaries' = Summaries(Chunks(transcript), engine)
    /\ summary' = format_bullet_points(Summaries(Chunks(transcript), engine))
    /\ pc' = "summarize_done"
    /\ UNCHANGED <<transcript, engine>>
    /\ UNCHANGED <<chatVars, noteVars, pipeVars>>

NextChunk == SummarizeText

SpecChunk == InitChunk /\ [][NextChunk]_vars

(***************************************************************************)
(* notes_summarizer.py : save_notes applied to a summary and timestamps    *)
(***************************************************************************)
InitNotes ==
    /\ pc = "save"
    /\ \E n \in 0..MaxSegments, step \in SegmentSteps :
          timestamps = TimestampsOf(Segments(n, step, 1))
    /\ \E sums \in {<<>>} \cup {<<[chunk |-> 0, summary_text |-> e]>> : e \in EngineOutputs} :
          summary = format_bullet_points(sums)
    /\ outfile = NoOutput
    /\ transcript = <<>> /\ engine = <<>> /\ chunks = <<>> /\ summaries = <<>>
    /\ IdleChat /\ IdlePipeline

SaveNotes ==
    /\ pc = "save"
    /\ EncodableWrites(NotesFile(summary, timestamps)) = NotesFile(summary, timestamps)
    /\ outfile' = SavedFile(summary, timestamps)
    /\ pc' = "save_done"
    /\ UNCHANGED <<timestamps, chatVars, sumVars, pipeVars>>

NextNotes == SaveNotes

SpecNotes == InitNotes /\ [][NextNotes]_vars

(***************************************************************************)
(* notes_summarizer.py : process_video, one step per call and per test.    *)
(* An exception that leaves process_video ends the run (pc = "raised"):    *)
(* it is raised by a stage, or it is an interrupt (KeyboardInterrupt) that *)
(* arrives between two stages.  The variable calls lists the stages        *)
(* process_video has invoked.                                              *)
(***************************************************************************)
TempAudioPath == "temp_audio.mp3"

InitPipeline ==
    /\ pc = "start"
    /\ tempAudio \in BOOLEAN
    /\ engine \in EngineOutputs
    /\ audio_path = Unset /\ calls = <<>> /\ result = NoResult
    /\ transcript = <<>> /\ chunks = <<>> /\ summaries = <<>> /\ summary = <<>>
    /\ IdleChat /\ IdleNotes

\* one of the prints of lines 118-120 fails (stdout is closed or cannot
\* encode the text): process_video raises before it calls extract_audio
ProcessVideoRaise ==
    /\ pc = "start"
    /\ pc' = "raised"
    /\ UNCHANGED <<pipeVars, chatVars, sumVars, noteVars>>

\* audio_path = self.extract_audio(video_path), line 123, when extract_audio
\* returns the path of the audio file it has written
ExtractAudioOk ==
    /\ pc = "start"
    /\ calls' = Append(calls, "extract_audio")
    /\ tempAudio' = TRUE
    /\ audio_path' = TempAudioPath
    /\ pc' = "extracted"
    /\ UNCHANGED <<result, chatVars, sumVars, noteVars>>

\* audio_path = self.extract_audio(video_path), line 123, when extract_audio
\* catches the exception raised in the try block and returns None (the
\* audio file may have been created before the failure)
ExtractAudioFail ==
    /\ pc = "start"
    /\ calls' = Append(calls, "extract_audio")
    /\ tempAudio' \in {tempAudio, TRUE}
    /\ audio_path' = None
    /\ pc' = "extracted"
    /\ UNCHANGED <<result, chatVars, sumVars, noteVars>>

\* an exception leaves extract_audio: the handler is for Exception only, so
\* a KeyboardInterrupt or a SystemExit raised in the try block passes it,
\* and the prints of line 29, before the try block, and of line 37, in the
\* handler, can fail themselves (the audio file may have been created);
\* process_video raises and audio_path is never assigned
ExtractAudioRaise ==
    /\ pc = "start"
    /\ calls' = Append(calls, "extract_audio")
    /\ tempAudio' \in {tempAudio, TRUE}
    /\ pc' = "raised"
    /\ UNCHANGED <<audio_path, result, chatVars, sumVars, noteVars>>

\* if not audio_path: return None
ReturnNone ==
    /\ pc = "extracted"
    /\ audio_path = None
    /\ result' = [NoResult EXCEPT !.value = None]
    /\ pc' = "returned"
    /\ UNCHANGED <<tempAudio, audio_path, calls, chatVars, sumVars, noteVars>>

\* an interrupt arrives between two stages, at the test of line 124 or at
\* one of the lines 128, 131, 134 and 137 before the call is made:
\* process_video raises and nothing else changes
Interrupted ==
    /\ pc \in {"extracted", "transcribed", "summarized", "saved"}
    /\ pc' = "raised"
    /\ UNCHANGED <<pipeVars, chatVars, sumVars, noteVars>>

\* variant: process_video does not test the None and goes on
TranscribeOkUnchecked ==
    /\ pc = "extracted"
    /\ calls' = Append(calls, "transcribe")
    /\ \E segs \in PipelineSegments :
          /\ transcript' = TranscriptOf(segs)
          /\ timestamps' = TimestampsOf(segs)
    /\ pc' = "transcribed"
    /\ UNCHANGED <<engine, chunks, summaries, summary, outfile>>
    /\ UNCHANGED <<tempAudio, audio_path, result, chatVars>>

\* the test of line 124 passes; transcript, timestamps =
\* self.transcribe(audio_path, language)
TranscribeOk ==
    /\ pc = "extracted"
    /\ audio_path # None
    /\ calls' = Append(calls, "transcribe")
    /\ \E segs \in PipelineSegments :
          /\ transcript' = TranscriptOf(segs)
          /\ timestamps' = TimestampsOf(segs)
    /\ pc' = "transcribed"
    /\ UNCHANGED <<engine, chunks, summaries, summary, outfile>>
    /\ UNCHANGED <<tempAudio, audio_path, result, chatVars>>

\* an exception leaves transcribe (the speech engine or a print fails, an
\* interrupt arrives): transcript and timestamps of process_video are
\* never assigned
TranscribeRaise ==
    /\ pc = "extracted"
    /\ audio_path # None
    /\ calls' = Append(calls, "transcribe")
    /\ pc' = "raised"
    /\ UNCHANGED <<tempAudio, audio_path, result, chatVars, sumVars, noteVars>>

SummarizeOk ==
    /\ pc = "transcribed"
    /\ calls' = Append(calls, "summarize")
    /\ chunks' = Chunks(transcript)
    /\ summaries' = Summaries(Chunks(transcript), engine)
    /\ summary' = format_bullet_points(Summaries(Chunks(transcript), engine))
    /\ pc' = "summarized"
    /\ UNCHANGED <<transcript, engine>>
    /\ UNCHANGED <<tempAudio, audio_path, result, chatVars, noteVars>>

\* an exception leaves summarize: the print of line 65 fails before
\* anything is computed, or an interrupt arrives in the chunking loop after
\* some of the words, or the summarization model or a print fails at some
\* chunk, or the print of line 99 fails after the last one; summary of
\* process_video is never assigned
SummarizeRaise ==
    /\ pc = "transcribed"
    /\ calls' = Append(calls, "summarize")
    /\ \/ /\ \E k \in 0..Len(Split(transcript)) :
                chunks' = ChunksAfter(Split(transcript), k)
          /\ summaries' = <<>>
       \/ /\ chunks' = Chunks(transcript)
          /\ \E k \in 0..Len(Summaries(Chunks(transcript), engine)) :
                summaries' = SubSeq(Summaries(Chunks(transcript), engine), 1, k)
    /\ pc' = "raised"
    /\ UNCHANGED <<transcript, engine, summary>>
    /\ UNCHANGED <<tempAudio, audio_path, result, chatVars, noteVars>>

\* save_notes: open(output_file, 'w') creates or truncates the file
SaveOpen ==
    /\ pc = "summarized"
    /\ calls' = Append(calls, "save_notes")
    /\ outfile' = FileCut(<<>>, 0)
    /\ pc' = "save_writing"
    /\ UNCHANGED <<timestamps, tempAudio, audio_path, result, chatVars, sumVars>>

\* the print of line 144 or the open fails (no such directory, no
\* permission)
SaveOpenRaise ==
    /\ pc = "summarized"
    /\ calls' = Append(calls, "save_notes")
    /\ pc' = "raised"
    /\ UNCHANGED <<tempAudio, audio_path, result, chatVars, sumVars, noteVars>>

\* the writes of lines 147-168, the close of the file at the end of the
\* with block, and the return
SaveWrite ==
    /\ pc = "save_writing"
    /\ EncodableWrites(NotesFile(summary, timestamps)) = NotesFile(summary, timestamps)
    /\ outfile' = SavedFile(summary, timestamps)
    /\ pc' = "saved"
    /\ UNCHANGED <<timestamps, pipeVars, chatVars, sumVars>>

\* variant: save_notes catches the exception, as extract_audio does
SaveRaiseSwallowed ==
    /\ pc = "save_writing"
    /\ LET ws == EncodableWrites(NotesFile(summary, timestamps))
       IN \E k \in 0..FileBytes(ws) : outfile' = FileCut(ws, k)
    /\ pc' = "saved"
    /\ UNCHANGED <<timestamps, pipeVars, chatVars, sumVars>>

\* save_notes raises after the open (disk full, file size limit, device
\* error, a text that cannot be encoded): the written text is buffered and
\* reaches the file when the buffer is flushed, at the latest by the close
\* at the end of the with block, so the failure can come after every write
\* was issued, and the file keeps the bytes that got through, any number
\* from none to all (all: the close or the print of line 170 fails after
\* the last flush)
SaveRaise ==
    /\ pc = "save_writing"
    /\ LET ws == EncodableWrites(NotesFile(summary, timestamps))
       IN \E k \in 0..FileBytes(ws) : outfile' = FileCut(ws, k)
    /\ pc' = "raised"
    /\ UNCHANGED <<timestamps, pipeVars, chatVars, sumVars>>

\* variant: the cleanup is left out
ReturnWithoutCleanup ==
    /\ pc = "saved"
    /\ result' = [value |-> "dict", transcript |-> transcript,
                  summary |-> summary, timestamps |-> timestamps]
    /\ pc' = "returned"
    /\ UNCHANGED <<calls, tempAudio, audio_path, chatVars, sumVars, noteVars>>

\* if os.path.exists(audio_path): os.remove(audio_path); return {...}
CleanupReturn ==
    /\ pc = "saved"
    /\ IF tempAudio
       THEN calls' = Append(calls, "os.remove") /\ tempAudio' = FALSE
       ELSE UNCHANGED <<calls, tempAudio>>
    /\ result' = [value |-> "dict", transcript |-> transcript,
                  summary |-> summary, timestamps |-> timestamps]
    /\ pc' = "returned"
    /\ UNCHANGED <<audio_path, chatVars, sumVars, noteVars>>

\* os.remove raises: it fails and the file stays (in use, protected), or an
\* interrupt that arrives while it runs (KeyboardInterrupt) is raised when
\* it is done and the file is gone
CleanupRaise ==
    /\ pc = "saved"
    /\ tempAudio
    /\ calls' = Append(calls, "os.remove")
    /\ tempAudio' \in BOOLEAN
    /\ pc' = "raised"
    /\ UNCHANGED <<audio_path, result, chatVars, sumVars, noteVars>>

NextPipeline ==
    \/ ProcessVideoRaise
    \/ ExtractAudioOk \/ ExtractAudioFail \/ ExtractAudioRaise
    \/ ReturnNone \/ Interrupted
    \/ TranscribeOk \/ TranscribeRaise
    \/ SummarizeOk \/ SummarizeRaise
    \/ SaveOpen \/ SaveOpenRaise \/ SaveWrite \/ SaveRaise
    \/ CleanupReturn \/ CleanupRaise

SpecPipeline == InitPipeline /\ [][NextPipeline]_vars

\* the scripts are run one at a time
Init == InitSplit \/ InitQA \/ InitChunk \/ InitNotes \/ InitPipeline

Next == NextSplit \/ NextQA \/ NextChunk \/ NextNotes \/ NextPipeline

Spec == Init /\ [][Next]_vars

(***************************************************************************)
(* Properties of the chunking and summarization loops (SpecChunk).         *)
(***************************************************************************)
ChunkWords == Flatten([i \in 1..Len(chunks) |-> Split(chunks[i])])

\* C1: the words of the chunks, concatenated in chunk order, are exactly the
\* words of the transcript, and no chunk of the list is empty.
C1_ChunksPreserveWords ==
    pc = "summarize_done" =>
        /\ ChunkWords = Split(transcript)
        /\ \A i \in 1..Len(chunks) : StrLen(chunks[i]) > 0 /\ Split(chunks[i]) # <<>>

\* a text cut into several chunks whose last chunk is the final partial one
C1_Witness ==
    /\ pc = "summarize_done"
    /\ Len(chunks) >= 2
    /\ StrLen(Last(chunks)) + 1 < max_chunk_length
    /\ ChunkWords = Split(transcript)

\* C8: every chunk is at most max_chunk_length characters long.
C8_ChunksWithinMax ==
    pc = "summarize_done" =>
        \A i \in 1..Len(chunks) : StrLen(chunks[i]) <= max_chunk_length

WordCount(chunk) == Len(Split(chunk))

SummarizedChunks == {summaries[k].chunk : k \in 1..Len(summaries)}

InChunkOrder ==
    \A k \in 1..Len(summaries) : \A l \in 1..Len(summaries) :
        k < l => summaries[k].chunk < summaries[l].chunk

\* C9 as stated: the model is invoked on a chunk exactly when the chunk has
\* at least 50 words, once per such chunk, in chunk order.
C9_AtLeastFifty ==
    pc = "summarize_done" =>
        /\ SummarizedChunks =
              {i \in 0..(Len(chunks) - 1) : WordCount(chunks[i + 1]) >= 50}
        /\ InChunkOrder

\* C9 amended: the model is invoked on a chunk exactly when the chunk has
\* more than 50 words (a chunk of exactly 50 words is skipped), once per
\* such chunk, in chunk order.
C9_MoreThanFifty ==
    pc = "summarize_done" =>
        /\ SummarizedChunks =
              {i \in 0..(Len(chunks) - 1) : WordCount(chunks[i + 1]) >= 51}
        /\ InChunkOrder

\* a chunk of more than 50 words summarized, a chunk of exactly 50 skipped
C9_Witness ==
    /\ pc = "summarize_done"
    /\ \E i \in 1..Len(chunks) :
          WordCount(chunks[i]) = 50 /\ (i - 1) \notin SummarizedChunks
    /\ \E i \in 1..Len(chunks) :
          WordCount(chunks[i]) > 50 /\ (i - 1) \in SummarizedChunks

(***************************************************************************)
(* Properties of split_into_sentences (SpecSplit).                         *)
(***************************************************************************)
\* position i of s lies inside a delimiter: a newline, a bullet, a star,
\* "- ", or digits followed by ")"
InDelimiter(s, i) ==
    \/ s[i] \in {NEWLINE, BULLET, ASTERISK}
    \/ s[i] = HYPHEN /\ i < Len(s) /\ s[i + 1] = SPACE
    \/ s[i] = SPACE /\ i > 1 /\ s[i - 1] = HYPHEN
    \/ s[i] \in Digits /\ \E j \in (i + 1)..Len(s) :
                             s[j] = RPAREN /\ \A k \in i..(j - 1) : s[k] \in Digits
    \/ s[i] = RPAREN /\ i > 1 /\ s[i - 1] \in Digits

\* s[a..b] is a maximal stretch of s free of delimiters
IsStretch(s, a, b) ==
    /\ a <= b
    /\ \A i \in a..b : ~InDelimiter(s, i)
    /\ a = 1 \/ InDelimiter(s, a - 1)
    /\ b = Len(s) \/ InDelimiter(s, b + 1)

Visible(s, a, b) == {i \in a..b : s[i] \notin Whitespace}

\* the first positions of the stretches that are not blank
UnitStarts(s) ==
    {a \in 1..Len(s) :
        \E b \in a..Len(s) : IsStretch(s, a, b) /\ Visible(s, a, b) # {}}

StretchEnd(s, a) == CHOOSE b \in a..Len(s) : IsStretch(s, a, b)

Min(S) == CHOOSE x \in S : \A y \in S : x <= y
Max(S) == CHOOSE x \in S : \A y \in S : x >= y

\* the stretch that starts at a, without its leading and trailing whitespace
UnitAt(s, a) ==
    SubSeq(s, Min(Visible(s, a, StretchEnd(s, a))),
              Max(Visible(s, a, StretchEnd(s, a))))

\* the k-th element of S in increasing order
Nth(S, k) == CHOOSE x \in S : Cardinality({y \in S : y < x}) = k - 1

\* C5: for a non-empty text the units returned are non-empty, never pure
\* whitespace, stripped, and they are the text's non-blank stretches in
\* the order of the text, one unit per stretch (no de-duplication).
C5_UnitsStrippedInOrder ==
    (pc = "split_done" /\ text # <<>>) =>
        /\ \A k \in 1..Len(sentences) :
              /\ sentences[k] # <<>>
              /\ Head(sentences[k]) \notin Whitespace
              /\ Last(sentences[k]) \notin Whitespace
        /\ Len(sentences) = Cardinality(UnitStarts(text))
        /\ \A k \in 1..Len(sentences) :
              sentences[k] = UnitAt(text, Nth(UnitStarts(text), k))

\* the same unit twice, with whitespace around it, and a blank fragment
C5_Witness ==
    /\ pc = "split_done"
    /\ Len(sentences) = 2
    /\ sentences[1] = sentences[2]
    /\ Len(text) > Len(sentences[1]) + Len(sentences[2]) + 1
    /\ \E i \in 1..Len(text) : text[i] = SPACE

NoDelimiters(s) == \A i \in 1..Len(s) : ~InDelimiter(s, i)

\* C7 as stated: a text without delimiters yields exactly one element, the
\* whole text.
C7_WholeText ==
    (pc = "split_done" /\ NoDelimiters(text)) => sentences = <<text>>

\* C7 amended: a text without delimiters that has a character other than
\* whitespace yields exactly one element, the text without its leading and
\* trailing whitespace; an empty or blank text yields no element.
C7_StrippedText ==
    (pc = "split_done" /\ NoDelimiters(text)) =>
        IF Visible(text, 1, Len(text)) = {}
        THEN sentences = <<>>
        ELSE sentences = <<SubSeq(text, Min(Visible(text, 1, Len(text))),
                                        Max(Visible(text, 1, Len(text))))>>

\* a text without delimiters that ends in whitespace
C7_Witness ==
    /\ pc = "split_done"
    /\ NoDelimiters(text)
    /\ Len(text) >= 2
    /\ Last(text) = SPACE
    /\ Len(sentences) = 1
    /\ sentences[1] # text

(***************************************************************************)
(* Properties of answer_question (SpecQA).                                 *)
(***************************************************************************)
Asked == pc = "ready" /\ question # <<>>

IsUnit(q) == \E i \in 1..Len(sentences) : sentences[i] = q

\* C4 as stated: a question identical to a unit is answered with that unit,
\* ties and units without vocabulary terms included.
C4_SelfMatch == (Asked /\ IsUnit(question)) => answer = question

\* the term counts of a and b are proportional: their tf-idf vectors point
\* the same way and their similarity is 1
SameDirection(a, b) ==
    \A t \in Vocabulary(sentences) : \A u \in Vocabulary(sentences) :
        TermCount(a, t) * TermCount(b, u) = TermCount(a, u) * TermCount(b, t)

NoRival(q) ==
    /\ Tokens(q) # <<>>
    /\ \A i \in 1..Len(sentences) :
          (sentences[i] # q /\ Tokens(sentences[i]) # <<>>)
              => ~SameDirection(q, sentences[i])

\* C4 amended: a question identical to a unit is answered with that unit
\* when the unit has at least one vocabulary term and no unit with another
\* text has term counts proportional to its own; otherwise the
\* answer can be another unit.
C4_SelfMatchWithoutRival ==
    (Asked /\ IsUnit(question) /\ NoRival(question)) => answer = question

\* the question is the first of several different units, it shares a term
\* with another unit, and it is the answer
C4_Witness ==
    /\ Asked
    /\ Len(sentences) >= 2
    /\ sentences[1] = question
    /\ NoRival(question)
    /\ \E i \in 2..Len(sentences) :
          /\ sentences[i] # question
          /\ \E t \in Vocabulary(sentences) :
                TermCount(question, t) > 0 /\ TermCount(sentences[i], t) > 0
    /\ answer = question

(***************************************************************************)
(* Properties of save_notes (SpecNotes).                                   *)
(***************************************************************************)
TimestampLines ==
    SubSeq(outfile.writes, Len(HeaderWrites(summary)) + 1, Len(outfile.writes))

EmittedIndices == {i \in 0..(Len(timestamps) - 1) : i % 5 = 0 /\ i < 40}

\* C6: save_notes emits one line for exactly the segments at the indices i
\* with i divisible by 5 and i < 40, in increasing index order, so at most 8
\* lines; for 45 segments exactly 8 lines, the last one for index 35.
C6_EveryFifthBelowForty ==
    pc = "save_done" =>
        /\ Len(TimestampLines) = Cardinality(EmittedIndices)
        /\ Len(TimestampLines) <= 8
        /\ \A k \in 1..Len(TimestampLines) :
              TimestampLines[k] = TimestampLine(timestamps[5 * (k - 1) + 1])
        /\ Len(timestamps) = 45 =>
              /\ Len(TimestampLines) = 8
              /\ Last(TimestampLines) = TimestampLine(timestamps[36])
              /\ \A k \in 1..Len(TimestampLines) :
                    TimestampLines[k] # TimestampLine(timestamps[41])

\* 45 segments saved
C6_Witness ==
    /\ pc = "save_done"
    /\ Len(timestamps) = 45
    /\ Len(TimestampLines) = 8

(***************************************************************************)
(* Properties of process_video (SpecPipeline).                             *)
(***************************************************************************)
Aborted == pc = "returned" /\ result.value = None
Completed == pc = "returned" /\ result.value = "dict"
FileComplete == outfile = SavedFile(summary, timestamps)

\* C2 as stated: whenever the extraction has not given an audio path,
\* extract_audio has returned None instead of raising and process_video
\* returns None, without an output file.
C2_ExtractionFailureAborts ==
    (pc \in {"returned", "raised"} /\ calls = <<"extract_audio">>
        /\ audio_path # TempAudioPath) =>
        /\ audio_path = None
        /\ Aborted
        /\ ~outfile.exists

\* C2 amended: once extract_audio has returned None, process_video invokes
\* none of transcribe, summarize and save_notes and writes no output file,
\* and its next step is to return None or, when an interrupt arrives
\* first, to raise; it returns None in no other case; when an exception
\* leaves extract_audio instead, audio_path is never assigned, no later
\* stage is invoked and no output file is written.
C2_CaughtFailureAborts ==
    /\ [](audio_path = None =>
             /\ calls = <<"extract_audio">>
             /\ ~outfile.exists
             /\ (pc = "extracted" \/ pc = "raised" \/ Aborted))
    /\ [][(audio_path = None /\ pc = "extracted")
             => (Aborted' \/ pc' = "raised")]_vars
    /\ [](Aborted => audio_path = None)
    /\ []((pc = "raised" /\ audio_path = Unset) =>
             /\ calls \in {<<>>, <<"extract_audio">>}
             /\ ~outfile.exists)

\* the extraction has failed and process_video has returned None
C2_Witness == audio_path = None /\ Aborted /\ calls = <<"extract_audio">>

\* process_video has raised in the call of the given stage
RaisedIn(stage) == pc = "raised" /\ calls # <<>> /\ Last(calls) = stage

\* C3 as stated: a run that fails at any stage leaves no output file or a
\* complete one.
C3_NoPartialOutput ==
    (pc = "raised" \/ Aborted) => (~outfile.exists \/ FileComplete)

\* the bytes of a file as runs of one character, counted in bytes, equal
\* neighbours merged
AddByteRun(out, r) ==
    IF out # <<>> /\ Last(out).ch = r.ch
    THEN [out EXCEPT ![Len(out)].n = @ + r.n]
    ELSE Append(out, r)

AddCharRun(out, r) == AddByteRun(out, Run(r.ch, r.n * Utf8Len(r.ch)))

ContentBytes(f) ==
    LET whole == Flatten(f.writes)
    IN ForEach(AddByteRun,
               ForEach(AddCharRun, <<>>, whole, 1, Len(whole)),
               f.partial, 1, Len(f.partial))

\* the bytes a are the first bytes of the bytes b
IsBytePrefix(a, b) ==
    /\ Len(a) <= Len(b)
    /\ a # <<>> =>
          /\ SubSeq(a, 1, Len(a) - 1) = SubSeq(b, 1, Len(a) - 1)
          /\ a[Len(a)].ch = b[Len(a)].ch
          /\ a[Len(a)].n <= b[Len(a)].n

\* the file of the writes save_notes can encode
Layout ==
    [exists |-> TRUE,
     writes |-> EncodableWrites(NotesFile(summary, timestamps)),
     partial |-> <<>>]

\* C3 amended: as long as process_video has not invoked save_notes there is
\* no output file, so a run that returns None or raises before the saving
\* stage leaves none; a run that fails while saving leaves no file (the
\* open failed) or a file that holds the first bytes of the layout, any
\* number of them from none to all, so the file can be cut inside a line;
\* once save_notes has returned the file holds the complete layout.
C3_PartialOnlyWhileSaving ==
    /\ Aborted => ~outfile.exists
    /\ (\A i \in 1..Len(calls) : calls[i] # "save_notes") => ~outfile.exists
    /\ outfile.exists =>
          IsBytePrefix(ContentBytes(outfile), ContentBytes(Layout))
    /\ (pc = "saved" \/ Completed \/ RaisedIn("os.remove")) => FileComplete

\* the save failed and left a file cut inside a write, after the first one
C3_Witness ==
    /\ RaisedIn("save_notes")
    /\ outfile.exists
    /\ Len(outfile.writes) >= 2
    /\ ~FileComplete
    /\ Last(outfile.writes) # NotesFile(summary, timestamps)[Len(outfile.writes)]
    /\ IsBytePrefix(ContentBytes(outfile), ContentBytes(Layout))

\* C10 as stated: when process_video returns a result the temporary audio
\* file no longer exists; it is removed only once save_notes has written
\* the whole output file; a run that returns None or raises never removes
\* it.
C10_TempRemovedOnlyOnCompletion ==
    /\ [](Completed => ~tempAudio)
    /\ [][(tempAudio /\ ~tempAudio') => (pc = "saved" /\ FileComplete)]_vars
    /\ [][(pc' = "raised" \/ Aborted') => (tempAudio => tempAudio')]_vars

\* C10 amended: when process_video returns a result the temporary audio
\* file no longer exists; it is removed only by the call of os.remove in
\* the cleanup, once save_notes has written the whole output file; a run
\* that returns None or raises without having called os.remove never
\* removes it (a run that raises out of os.remove may have removed it).
C10_TempRemovedOnlyInCleanup ==
    /\ [](Completed => ~tempAudio)
    /\ [][(tempAudio /\ ~tempAudio') =>
             /\ pc = "saved"
             /\ FileComplete
             /\ calls' = Append(calls, "os.remove")]_vars
    /\ [][((pc' = "raised" \/ Aborted') /\ calls' # Append(calls, "os.remove"))
             => (tempAudio => tempAudio')]_vars

\* a completed run that has removed the temporary file
C10_Witness ==
    /\ Completed
    /\ ~tempAudio
    /\ Last(calls) = "os.remove"
    /\ FileComplete

====
